---------------------------- MODULE Spec2Model ----------------------------
(***************************************************************************)
(* Chat-prompt assembly of modules/chat.py: the boundary prober            *)
(* (get_generation_prompt), the message sequencer, the prompt composer     *)
(* (make_prompt, remove_extra_bos) and the truncation loop of              *)
(* generate_chat_prompt, and get_stopping_strings.                         *)
(*                                                                         *)
(* A Python str is a sequence of tokens.  A token is a piece of text the   *)
(* code only ever handles whole: a marker, a placeholder, a sentinel, a    *)
(* template literal, a blank, or a piece of message text.                  *)
(***************************************************************************)
EXTENDS Integers, Sequences, FiniteSets, TLC

VARIABLES
    pc,          \* position of the running call
    arg,         \* arguments of a call of one of the pure helpers
    state,       \* the ConversationState dict
    user_input,  \* generate_chat_prompt's positional argument
    kwargs,      \* its keyword arguments
    tokenizer,   \* the encoder behind get_encoded_length (external)
    max_length,  \* get_max_prompt_length(state) (external)
    messages,    \* the call-local message list
    prompt,      \* the call-local prompt
    assembled,   \* the message list as built, before truncation
    popped,      \* the messages the truncation loop removed, in order
    extensions,  \* the registered 'bot_prefix' handlers, in order (external)
    ret,         \* what the call returned or raised
    shared,      \* modules.shared: model, model_name, stop_everything
    output,      \* chatbot_wrapper's working copy of the history
    frame,       \* the other locals of the running wrapper
    yielded,     \* the values the running generator yielded, in order
    replies,     \* what generate_reply has still to yield (external)
    imported_module,  \* llama_cpp_python_hijack's global
    patched      \* the libraries whose Llama class has _is_patched set

\* the variables of the wrappers
wrapperVars == <<shared, output, frame, yielded, replies>>

\* the variables of llama_cpp_python_hijack
hijackVars == <<imported_module, patched>>

vars == <<pc, arg, state, user_input, kwargs, tokenizer, max_length,
          messages, prompt, assembled, popped, extensions, ret, wrapperVars,
          hijackVars>>

----------------------------------------------------------------------------
(* Bounds of the model *)

\* longest run of leading tokens of the strings given to remove_extra_bos
MaxBosLen == 4
\* most turns in history['internal']
MaxTurns == 2
\* budgets are 0, BudgetStep, ..., MaxBudgetSteps * BudgetStep
MaxBudgetSteps == 3
BudgetStep == 4
\* longest reply of a last turn that is regenerated or continued
MaxReplyLen == 1

----------------------------------------------------------------------------
(* Python str and list primitives on token sequences *)

RECURSIVE Concat(_)
Concat(ss) == IF ss = <<>> THEN <<>> ELSE Head(ss) \o Concat(Tail(ss))

\* s.find(tok) + 1: the position of the first tok in s, 0 when there is none
IndexOf(s, tok) ==
    IF \E i \in 1..Len(s) : s[i] = tok
    THEN CHOOSE i \in 1..Len(s) : s[i] = tok /\ \A j \in 1..(i - 1) : s[j] # tok
    ELSE 0

\* s.split(sep): the list of the pieces of s between the occurrences of sep
RECURSIVE PySplit(_, _)
PySplit(s, sep) ==
    LET i == IndexOf(s, sep) IN
    IF i = 0 THEN <<s>>
    ELSE <<SubSeq(s, 1, i - 1)>> \o PySplit(SubSeq(s, i + 1, Len(s)), sep)

\* s.replace(tok, by)
RECURSIVE PyReplace(_, _, _)
PyReplace(s, tok, by) ==
    IF s = <<>> THEN <<>>
    ELSE (IF Head(s) = tok THEN by ELSE <<Head(s)>>) \o PyReplace(Tail(s), tok, by)

\* list[-1]
Last(list) == list[Len(list)]

\* s.startswith(p)
StartsWith(s, p) == Len(p) <= Len(s) /\ SubSeq(s, 1, Len(p)) = p

\* s.endswith(p)
EndsWith(s, p) == Len(p) <= Len(s) /\ SubSeq(s, Len(s) - Len(p) + 1, Len(s)) = p

\* s[n:]
PyFrom(s, n) == SubSeq(s, n + 1, Len(s))

\* s[:-n] dropping one token more
PyDropLastOneMore(s, n) == IF n = 0 THEN <<>> ELSE SubSeq(s, 1, Len(s) - n - 1)

\* s[:-n] as Python evaluates it: -0 is 0, so n = 0 gives s[:0], the empty str
PyDropLast(s, n) == IF n = 0 THEN <<>> ELSE SubSeq(s, 1, Len(s) - n)

Whitespace == {" ", "\n"}

RECURSIVE LStripSet(_, _)
LStripSet(s, chars) ==
    IF s # <<>> /\ Head(s) \in chars THEN LStripSet(Tail(s), chars) ELSE s

RECURSIVE RStripSet(_, _)
RStripSet(s, chars) ==
    IF s # <<>> /\ s[Len(s)] \in chars
    THEN RStripSet(SubSeq(s, 1, Len(s) - 1), chars) ELSE s

\* s.strip()
PyStrip(s) == RStripSet(LStripSet(s, Whitespace), Whitespace)

\* s.rstrip(' ')
PyRStripSpaces(s) == RStripSet(s, {" "})

\* a pop whose result is dropped: the list stays as it was
PyPopKeeps(list, i) == list

\* list.pop(i) of a 0-based index i: the list without that element
PyPop(list, i) == SubSeq(list, 1, i) \o SubSeq(list, i + 2, Len(list))

----------------------------------------------------------------------------
(* Markers, sentinels and placeholders of chat.py *)

BOS_S == "<s>"
BOS_T == "<|startoftext|>"
SENT1 == "<<|user-message-1|>>"
SENT2 == "<<|user-message-2|>>"
BEGIN_VISIBLE == "<|BEGIN-VISIBLE-CHAT|>"

Roles == {"system", "user", "assistant"}

Msg(role, content) == [role |-> role, content |-> content]

----------------------------------------------------------------------------
(* Templates.  A template string is named; TemplateOf gives what it        *)
(* renders.  kind "all" renders every message as prefix, content, suffix   *)
(* after a leading text; "last_only" renders messages[-1] alone,           *)
(* "first_only" messages[0] alone, "escape" escapes the angle brackets of  *)
(* the content.  The token "{{name1}}"/"{{name2}}" of a literal is the     *)
(* template variable name1/name2.                                          *)

Tpl(kind, lead, ps, us, as, ss, xu, xa) ==
    [kind |-> kind, lead |-> lead,
     pre |-> [r \in Roles |-> CASE r = "system" -> ps [] r = "user" -> us [] OTHER -> as],
     suf |-> [r \in Roles |-> CASE r = "system" -> ss [] r = "user" -> xu [] OTHER -> xa]]

TemplateOf(name) ==
    CASE name = "chat"      -> Tpl("all", <<>>, <<>>, <<"{{name1}}", ":", " ">>,
                                   <<"{{name2}}", ":", " ">>, <<"\n">>, <<"\n">>, <<"\n">>)
      [] name = "chatml"    -> Tpl("all", <<>>, <<"<|sys|>">>, <<"<|usr|>">>,
                                   <<"<|bot|>">>, <<"<|end|>">>, <<"<|end|>">>, <<"<|end|>">>)
      [] name = "llama"     -> Tpl("all", <<BOS_S>>, <<"<<SYS>>">>, <<"[INST]", " ">>,
                                   <<" ">>, <<"<</SYS>>">>, <<" ", "[/INST]">>, <<"</s>", BOS_S>>)
      [] name = "bare"      -> Tpl("all", <<>>, <<>>, <<"Q:">>, <<"A:">>, <<>>, <<>>, <<>>)
      [] name = "startoftext" -> Tpl("all", <<BOS_T, BOS_S>>, <<>>, <<"Q:">>, <<"A:">>,
                                   <<"\n">>, <<"\n">>, <<"\n">>)
      [] name = "last_only" -> Tpl("last_only", <<>>, <<>>, <<"Q:">>, <<"A:">>,
                                   <<"\n">>, <<"\n">>, <<"\n">>)
      [] name = "first_only" -> Tpl("first_only", <<>>, <<>>, <<"Q:">>, <<"A:">>,
                                   <<"\n">>, <<"\n">>, <<"\n">>)
      [] name = "escape"    -> Tpl("escape", <<>>, <<>>, <<"Q:">>, <<"A:">>,
                                   <<"\n">>, <<"\n">>, <<"\n">>)

WellFormedTemplates == {"chat", "chatml", "llama", "bare", "startoftext"}
ManglingTemplates == {"last_only", "first_only", "escape"}
TemplateNames == WellFormedTemplates \cup ManglingTemplates

\* html-style escaping of one token: a token with angle brackets changes
EscapeToken(tok) ==
    CASE tok = SENT1 -> "&lt;&lt;|user-message-1|&gt;&gt;"
      [] tok = SENT2 -> "&lt;&lt;|user-message-2|&gt;&gt;"
      [] tok = BOS_S -> "&lt;s&gt;"
      [] tok = BOS_T -> "&lt;|startoftext|&gt;"
      [] OTHER -> tok

EscapeStr(s) == [i \in 1..Len(s) |-> EscapeToken(s[i])]

\* The names a renderer binds: chat_renderer binds name1 and name2,
\* instruct_renderer binds neither (an undefined variable renders as '').
ChatBindings(st) == [name1 |-> st.name1, name2 |-> st.name2]
NoBindings == [name1 |-> <<>>, name2 |-> <<>>]

Bind(lit, b) == PyReplace(PyReplace(lit, "{{name1}}", b.name1), "{{name2}}", b.name2)

RenderOne(t, b, m, escape) ==
    Bind(t.pre[m.role], b)
        \o (IF escape THEN EscapeStr(m.content) ELSE m.content)
        \o Bind(t.suf[m.role], b)

\* A renderer: partial(template.render, ...) applied to messages
Renderer(name, b) == [template |-> name, bindings |-> b]

Render(renderer, msgs) ==
    LET t == TemplateOf(renderer.template)
        b == renderer.bindings
        shown == CASE t.kind = "last_only" ->
                        IF msgs = <<>> THEN <<>> ELSE <<msgs[Len(msgs)]>>
                   [] t.kind = "first_only" ->
                        IF msgs = <<>> THEN <<>> ELSE <<msgs[1]>>
                   [] OTHER -> msgs
    IN Bind(t.lead, b)
        \o Concat([i \in 1..Len(shown) |-> RenderOne(t, b, shown[i], t.kind = "escape")])

----------------------------------------------------------------------------
(* get_generation_prompt, chat.py 48-75 *)

Raised(exc, at) == [raised |-> exc, at |-> at]

IsRaised(r) == "raised" \in DOMAIN r

\* lines 55-64: the two sentinel messages
SentinelMessages(impersonate) ==
    IF impersonate
    THEN <<Msg("user", <<SENT1>>), Msg("user", <<SENT2>>)>>
    ELSE <<Msg("assistant", <<SENT1>>), Msg("assistant", <<SENT2>>)>>

\* the prefix taken by removing the trailing len(suffix) of suffix_plus_prefix
PrefixAndSuffixFromEnd(suffix_plus_prefix, suffix, strip_trailing_spaces) ==
    [prefix |-> IF strip_trailing_spaces
                THEN PyRStripSpaces(PyDropLast(suffix_plus_prefix, Len(suffix)))
                ELSE PyDropLast(suffix_plus_prefix, Len(suffix)),
     suffix |-> suffix]

\* lines 70-75, from suffix_plus_prefix and suffix
PrefixAndSuffix(suffix_plus_prefix, suffix, strip_trailing_spaces) ==
    [prefix |-> IF strip_trailing_spaces
                THEN PyRStripSpaces(PyFrom(suffix_plus_prefix, Len(suffix)))
                ELSE PyFrom(suffix_plus_prefix, Len(suffix)),
     suffix |-> suffix]

\* a missing sentinel answered with empty boundaries in place of the IndexError
SplitBoundariesOrDefault(by1, by2, strip_trailing_spaces) ==
    IF Len(by1) < 2 \/ Len(by2) < 2
    THEN [prefix |-> <<>>, suffix |-> <<>>]
    ELSE [prefix |-> IF strip_trailing_spaces
                     THEN PyRStripSpaces(PyFrom(PySplit(by1[2], SENT2)[1], Len(by2[2])))
                     ELSE PyFrom(PySplit(by1[2], SENT2)[1], Len(by2[2])),
          suffix |-> by2[2]]

\* lines 68-75, from prompt.split(SENT1) and prompt.split(SENT2): an index
\* [1] of a list of one piece raises IndexError
SplitBoundaries(by1, by2, strip_trailing_spaces) ==
    IF Len(by1) < 2 \/ Len(by2) < 2
    THEN Raised("IndexError", "get_generation_prompt")
    ELSE PrefixAndSuffix(PySplit(by1[2], SENT2)[1], by2[2], strip_trailing_spaces)

\* lines 68-75, from the rendered prompt of line 66
ProbeRendered(p, strip_trailing_spaces) ==
    SplitBoundaries(PySplit(p, SENT1), PySplit(p, SENT2), strip_trailing_spaces)

\* [prefix |-> ..., suffix |-> ...], or what it raised
get_generation_prompt(renderer, impersonate, strip_trailing_spaces) ==
    ProbeRendered(Render(renderer, SentinelMessages(impersonate)), strip_trailing_spaces)

----------------------------------------------------------------------------
(* remove_extra_bos, chat.py 117-122 *)

RECURSIVE StripLeading(_, _)
StripLeading(p, bos_token) ==
    IF StartsWith(p, <<bos_token>>) THEN StripLeading(Tail(p), bos_token) ELSE p

remove_extra_bos(p) == StripLeading(StripLeading(p, BOS_S), BOS_T)


----------------------------------------------------------------------------
(* External collaborators *)

\* get_encoded_length(prompt): the length of the tokenizer's encoding.
\* "len" encodes every token of the text as one id; "merge" encodes a
\* text of even length as pairs, so that a shorter text can encode longer.
get_encoded_length(p, tok) ==
    CASE tok = "len" -> Len(p)
      [] tok = "merge" -> IF Len(p) % 2 = 0 THEN Len(p) \div 2 ELSE Len(p)

\* One registered handler of the 'bot_prefix' hook.  coqui_tts's
\* bot_prefix_modifier returns its argument; "bias" stands for an extension
\* that biases the reply by extending the prefix.
bot_prefix_modifier(ext, string) ==
    CASE ext = "coqui_tts" -> string
      [] ext = "bias" -> string \o <<"*bias*">>

\* apply_extensions('bot_prefix', value, state): the registered handlers,
\* left to right, each given the previous one's result
RECURSIVE apply_extensions_bot_prefix(_, _)
apply_extensions_bot_prefix(exts, value) ==
    IF exts = <<>> THEN value
    ELSE apply_extensions_bot_prefix(Tail(exts), bot_prefix_modifier(Head(exts), value))

----------------------------------------------------------------------------
(* replace_character_names, chat.py 558-560 *)

replace_character_names(text, name1, name2) ==
    LET t1 == PyReplace(PyReplace(text, "{{user}}", name1), "{{char}}", name2)
    IN PyReplace(PyReplace(t1, "<USER>", name1), "<BOT>", name2)

----------------------------------------------------------------------------
(* generate_chat_prompt, chat.py 78-185 *)

chat_renderer(st) == Renderer(st.chat_template_str, ChatBindings(st))
instruct_renderer(st) == Renderer(st.instruction_template_str, NoBindings)

\* the renderer chosen at lines 92-97
ActiveRenderer(st) ==
    IF st.mode = "instruct" THEN instruct_renderer(st) ELSE chat_renderer(st)

\* the system message decided on the context after the substitution
SystemMessagesBlankAfter(st) ==
    IF st.mode = "instruct"
    THEN IF PyStrip(st.custom_system_message) # <<>>
         THEN <<Msg("system", st.custom_system_message)>> ELSE <<>>
    ELSE IF PyStrip(replace_character_names(st.context, st.name1, st.name2)) # <<>>
         THEN <<Msg("system", replace_character_names(st.context, st.name1, st.name2))>>
         ELSE <<>>

\* lines 90-100: the optional system message
SystemMessages(st) ==
    IF st.mode = "instruct"
    THEN IF PyStrip(st.custom_system_message) # <<>>
         THEN <<Msg("system", st.custom_system_message)>> ELSE <<>>
    ELSE IF PyStrip(st.context) # <<>>
         THEN <<Msg("system", replace_character_names(st.context, st.name1, st.name2))>>
         ELSE <<>>

\* list.insert(pos, x) for 0 <= pos <= len(list)
PyInsert(list, pos, x) == SubSeq(list, 1, pos) \o <<x>> \o SubSeq(list, pos + 1, Len(list))

\* the history visited oldest turn first
PyReversedKept(list) == list

RECURSIVE PyReversed(_)
PyReversed(list) ==
    IF list = <<>> THEN <<>> ELSE PyReversed(Tail(list)) \o <<Head(list)>>

\* lines 103-111: the loop over reversed(history), from the turns still to visit
RECURSIVE InsertHistory(_, _, _)
InsertHistory(msgs, insert_pos, turns) ==
    IF turns = <<>> THEN msgs
    ELSE LET user_msg == PyStrip(Head(turns)[1])
             assistant_msg == PyStrip(Head(turns)[2])
             m1 == IF assistant_msg # <<>>
                   THEN PyInsert(msgs, insert_pos, Msg("assistant", assistant_msg))
                   ELSE msgs
             m2 == IF user_msg \notin {<<>>, <<BEGIN_VISIBLE>>}
                   THEN PyInsert(m1, insert_pos, Msg("user", user_msg))
                   ELSE m1
         IN InsertHistory(m2, insert_pos, Tail(turns))

\* the new input appended whatever the flags
BuildMessagesAnyFlag(input, st, kw) ==
    LET history == kw.history.internal
        sys == SystemMessages(st)
        withHistory == InsertHistory(sys, Len(sys), PyReversed(history))
        stripped == PyStrip(input)
    IN IF stripped # <<>>
       THEN Append(withHistory, Msg("user", stripped))
       ELSE withHistory

\* lines 82, 90-115: the message list before truncation
BuildMessages(input, st, kw) ==
    LET history == kw.history.internal
        sys == SystemMessages(st)
        withHistory == InsertHistory(sys, Len(sys), PyReversed(history))
        stripped == PyStrip(input)
    IN IF stripped # <<>> /\ ~kw.impersonate /\ ~kw._continue
       THEN Append(withHistory, Msg("user", stripped))
       ELSE withHistory

\* lines 131-133: the system message of the outer messages
OuterSystem(st) ==
    IF PyStrip(st.custom_system_message) # <<>>
    THEN <<Msg("system", st.custom_system_message)>> ELSE <<>>

\* lines 135-138: the command holding the inner prompt
Command(inner, st, kw) ==
    PyReplace(PyReplace(st.chat_instruct_command, "<|character|>",
                        IF ~kw.impersonate THEN st.name2 ELSE st.name1),
              "<|prompt|>", remove_extra_bos(inner))

\* lines 148-153, from the content of the outer assistant message and the
\* suffix the instruction renderer closes an assistant message with
OuterPrompt(inner, prefix, suffix, st, kw) ==
    [prompt |-> PyDropLast(
        Render(instruct_renderer(st),
               OuterSystem(st) \o <<Msg("user", Command(inner, st, kw)),
                                    Msg("assistant", prefix)>>),
        Len(suffix))]

\* lines 140-146: the content of the outer assistant message
OuterPrefix(prefix, msgs, kw, exts) ==
    IF kw._continue THEN prefix \o msgs[Len(msgs)].content
    ELSE IF ~kw.impersonate THEN apply_extensions_bot_prefix(exts, prefix)
    ELSE prefix

\* lines 130-153: the chat-instruct branch, from the inner render and the
\* two probes (line 141 or 144, and line 152)
ChatInstructPrompt(inner, probe, probeInstruct, msgs, st, kw, exts) ==
    IF IsRaised(probe) THEN probe
    ELSE IF kw._continue /\ msgs = <<>> THEN Raised("IndexError", "make_prompt")
    ELSE IF IsRaised(probeInstruct) THEN probeInstruct
    ELSE OuterPrompt(inner, OuterPrefix(probe.prefix, msgs, kw, exts),
                     probeInstruct.suffix, st, kw)

\* the 'bot_prefix' hook applied in instruct mode as well
PlainPromptHookAnyMode(rendered, probe, st, kw, exts) ==
    IF IsRaised(probe) THEN probe
    ELSE IF kw._continue
    THEN [prompt |-> PyDropLast(rendered, Len(probe.suffix))]
    ELSE [prompt |-> rendered \o
              (IF ~kw.impersonate
               THEN apply_extensions_bot_prefix(exts, probe.prefix)
               ELSE probe.prefix)]

\* lines 155-164: the chat and instruct branch, from the render and the probe
PlainPrompt(rendered, probe, st, kw, exts) ==
    IF IsRaised(probe) THEN probe
    ELSE IF kw._continue
    THEN [prompt |-> PyDropLast(rendered, Len(probe.suffix))]
    ELSE [prompt |-> rendered \o
              (IF st.mode = "chat" /\ ~kw.impersonate
               THEN apply_extensions_bot_prefix(exts, probe.prefix)
               ELSE probe.prefix)]

\* lines 125-128: the first render
FirstRender(msgs, st, kw) ==
    Render(ActiveRenderer(st),
           IF st.mode = "chat-instruct" /\ kw._continue
           THEN PyDropLast(msgs, 1) ELSE msgs)

\* lines 130-164: the branch of the mode
ModePrompt(rendered, msgs, st, kw, exts) ==
    IF st.mode = "chat-instruct"
    THEN ChatInstructPrompt(
             rendered,
             get_generation_prompt(ActiveRenderer(st), kw.impersonate, ~kw._continue),
             get_generation_prompt(instruct_renderer(st), FALSE, TRUE),
             msgs, st, kw, exts)
    ELSE PlainPrompt(rendered,
                     get_generation_prompt(ActiveRenderer(st), kw.impersonate, TRUE),
                     st, kw, exts)

\* lines 166-167
Normalized(r) == IF IsRaised(r) THEN r ELSE [prompt |-> remove_extra_bos(r.prompt)]

\* make_prompt, lines 124-167: [prompt |-> ...], or what it raised
make_prompt(msgs, st, kw, exts) ==
    Normalized(ModePrompt(FirstRender(msgs, st, kw), msgs, st, kw, exts))

\* the loop condition with the budget off by one
ShouldTruncateOffByOne(msgs, p, budget, tok) ==
    Len(msgs) > 0 /\ get_encoded_length(p, tok) > budget + 1

\* the loop condition with the comparison turned round
ShouldTruncateInverted(msgs, p, budget, tok) ==
    Len(msgs) > 0 /\ get_encoded_length(p, tok) < budget

\* line 173: the loop condition
ShouldTruncate(msgs, p, budget, tok) ==
    Len(msgs) > 0 /\ get_encoded_length(p, tok) > budget

\* the loop popping the oldest message whatever its role
PopIndexOldest(msgs) == 0

\* the loop popping the newest message
PopIndexNewest(msgs) == Len(msgs) - 1

\* lines 175-178: the 0-based index the loop pops
PopIndex(msgs) ==
    IF Len(msgs) > 1 /\ msgs[1].role = "system" THEN 1 ELSE 0

\* lines 169-180 as a function of the message list and the budget: the final
\* list with its prompt, or with what make_prompt raised on it
RECURSIVE Fit(_, _, _, _, _, _, _)
RECURSIVE FitFrom(_, _, _, _, _, _)
Fit(r, msgs, budget, tok, st, kw, exts) ==
    IF IsRaised(r) THEN [messages |-> msgs, raised |-> r]
    ELSE IF ShouldTruncate(msgs, r.prompt, budget, tok)
    THEN FitFrom(PyPop(msgs, PopIndex(msgs)), budget, tok, st, kw, exts)
    ELSE [messages |-> msgs, prompt |-> r.prompt]

FitFrom(msgs, budget, tok, st, kw, exts) ==
    Fit(make_prompt(msgs, st, kw, exts), msgs, budget, tok, st, kw, exts)

\* lines 182-185: the value returned
ReturnValue(p, msgs, kw) ==
    IF kw.also_return_rows
    THEN [prompt |-> p, rows |-> [i \in 1..Len(msgs) |-> msgs[i].content]]
    ELSE [prompt |-> p]


----------------------------------------------------------------------------
(* get_stopping_strings, chat.py 188-216 *)

\* lines 192-200: the renderers of the mode, in order
StoppingRenderers(st) ==
    (IF st.mode \in {"instruct", "chat-instruct"} THEN <<instruct_renderer(st)>> ELSE <<>>)
        \o (IF st.mode \in {"chat", "chat-instruct"} THEN <<chat_renderer(st)>> ELSE <<>>)

\* lines 203-211, from the two probes of one renderer
FourCombinations(bot, user) ==
    IF IsRaised(bot) THEN bot
    ELSE IF IsRaised(user) THEN user
    ELSE [strings |-> <<user.suffix \o bot.prefix, user.suffix \o user.prefix,
                        bot.suffix \o bot.prefix, bot.suffix \o user.prefix>>]

\* stopping_strings += ...: the strings of one renderer and those of the
\* renderers after it
Gathered(sofar, more) ==
    IF IsRaised(sofar) THEN sofar
    ELSE IF IsRaised(more) THEN more
    ELSE [strings |-> sofar.strings \o more.strings]

\* lines 202-211: the loop over the renderers
RECURSIVE RendererStrings(_)
RendererStrings(renderers) ==
    IF renderers = <<>> THEN [strings |-> <<>>]
    ELSE Gathered(FourCombinations(get_generation_prompt(Head(renderers), FALSE, TRUE),
                                   get_generation_prompt(Head(renderers), TRUE, TRUE)),
                  RendererStrings(Tail(renderers)))

\* line 213: the condition of the pop
HasStoppingList(st) ==
    "stopping_strings" \in DOMAIN st /\ "list" \in DOMAIN st.stopping_strings

ListItems(list) == {list[i] : i \in 1..Len(list)}

\* lines 213-214, from the strings of the renderers
WithExtras(r, st) ==
    IF IsRaised(r) THEN r
    ELSE IF HasStoppingList(st)
    THEN [strings |-> r.strings \o st.stopping_strings.list]
    ELSE r

\* the list returned with its duplicates
PyListKept(list) == list

\* list(set(list)): every element of the list once; the order of a set is
\* not specified, the elements are taken in the order of their first
\* occurrence
RECURSIVE PyListOfSet(_)
PyListOfSet(list) ==
    IF list = <<>> THEN <<>>
    ELSE IF Last(list) \in ListItems(SubSeq(list, 1, Len(list) - 1))
    THEN PyListOfSet(SubSeq(list, 1, Len(list) - 1))
    ELSE Append(PyListOfSet(SubSeq(list, 1, Len(list) - 1)), Last(list))

\* line 216
Returned(r) == IF IsRaised(r) THEN r ELSE [strings |-> PyListOfSet(r.strings)]

\* [strings |-> the list returned], or what was raised
get_stopping_strings(st) ==
    Returned(WithExtras(RendererStrings(StoppingRenderers(st)), st))

\* a pop that leaves the key in the state
StatePopKeeps(st, key) == st

\* state.pop('stopping_strings')
StatePop(st, key) == [k \in DOMAIN st \ {key} |-> st[k]]

----------------------------------------------------------------------------
(* Inputs *)

Modes == {"chat", "instruct", "chat-instruct"}

NAME1 == <<"You">>
NAME2 == <<"Bot">>

COMMAND == <<"Reply as ", "<|character|>", "\n", "<|prompt|>">>

\* the lists of at most n elements of S
RECURSIVE SeqsUpTo(_, _)
SeqsUpTo(S, n) ==
    IF n = 0 THEN {<<>>}
    ELSE LET shorter == SeqsUpTo(S, n - 1)
         IN shorter \cup {Append(s, x) : s \in {t \in shorter : Len(t) = n - 1}, x \in S}

Turn(user_text, assistant_text) == <<user_text, assistant_text>>

History(turns) == [internal |-> turns, visible |-> turns]

Budgets == {k * BudgetStep : k \in 0..MaxBudgetSteps}

NoArg == [fn |-> "generate_chat_prompt"]
None == [none |-> TRUE]

ConversationState(mode, name1, context, system, chat, instruct, history) ==
    [mode |-> mode, name1 |-> name1, name2 |-> NAME2,
     context |-> context, custom_system_message |-> system,
     chat_template_str |-> chat, instruction_template_str |-> instruct,
     chat_instruct_command |-> COMMAND,
     history |-> History(history)]

\* state with state['stopping_strings'] = value
WithStoppingStrings(st, value) ==
    [k \in DOMAIN st \cup {"stopping_strings"} |->
        IF k = "stopping_strings" THEN value ELSE st[k]]

\* no wrapper is running
\* line 10: the value of imported_module before any import, Python's None
NoModule == "None"

\* no llama-cpp library has been asked for
NoHijack ==
    /\ imported_module = NoModule
    /\ patched = {}

NoWrapper ==
    /\ shared = None
    /\ output = None
    /\ frame = None
    /\ yielded = <<>>
    /\ replies = <<>>

\* no call of generate_chat_prompt is running
NoGenerate ==
    /\ NoWrapper
    /\ NoHijack
    /\ user_input = <<>>
    /\ kwargs = None
    /\ max_length = 0
    /\ tokenizer = "len"
    /\ extensions = <<>>
    /\ messages = <<>>
    /\ prompt = <<>>
    /\ assembled = <<>>
    /\ popped = <<>>

\* A call of generate_chat_prompt(user_input, state, **kwargs) about to run
InitGenerate(modes, name1s, contexts, systems, chats, instructs, histories, inputs, flags, rows, budgets, tokenizers, handlers) ==
    /\ pc = "generate_chat_prompt"
    /\ arg = NoArg
    /\ \E mode \in modes, name1 \in name1s, context \in contexts, system \in systems,
          chat \in chats, instruct \in instructs, history \in histories :
          state = ConversationState(mode, name1, context, system, chat, instruct, history)
    /\ user_input \in inputs
    /\ \E impersonate \in flags, continue \in flags, also_return_rows \in rows :
          kwargs = [impersonate |-> impersonate, _continue |-> continue,
                    also_return_rows |-> also_return_rows, history |-> state.history]
    /\ max_length \in budgets
    /\ tokenizer \in tokenizers
    /\ extensions \in handlers
    /\ messages = <<>>
    /\ prompt = <<>>
    /\ assembled = <<>>
    /\ popped = <<>>
    /\ ret = None
    /\ NoWrapper
    /\ NoHijack

----------------------------------------------------------------------------
(* generate_chat_prompt as steps: lines 79-169, one iteration of the loop  *)
(* of lines 173-180, and the return of lines 182-185.  An exception of     *)
(* make_prompt ends the call where it is raised.                           *)

\* the call after make_prompt: the prompt is assigned, or the exception ends it
Composed(r) ==
    IF IsRaised(r)
    THEN pc' = "raised" /\ ret' = r /\ prompt' = prompt
    ELSE pc' = "truncate" /\ ret' = ret /\ prompt' = r.prompt

Assembled(msgs) ==
    /\ messages' = msgs
    /\ assembled' = msgs
    /\ Composed(make_prompt(msgs, state, kwargs, extensions))

Assemble ==
    /\ pc = "generate_chat_prompt"
    /\ Assembled(BuildMessages(user_input, state, kwargs))
    /\ UNCHANGED <<arg, state, user_input, kwargs, tokenizer, max_length,
                   popped, extensions,
                   wrapperVars, hijackVars>>

Truncated(msgs) ==
    /\ messages' = msgs
    /\ Composed(make_prompt(msgs, state, kwargs, extensions))

\* a loop whose message list shares its entries with the history
TruncateSharingHistory ==
    /\ pc = "truncate"
    /\ ShouldTruncate(messages, prompt, max_length, tokenizer)
    /\ popped' = Append(popped, messages[PopIndex(messages) + 1])
    /\ Truncated(PyPop(messages, PopIndex(messages)))
    /\ state' = [state EXCEPT !.history.internal = PyPop(@, 0),
                              !.history.visible = PyPop(@, 0)]
    /\ UNCHANGED <<arg, user_input, kwargs, tokenizer, max_length,
                   assembled, extensions,
                   wrapperVars, hijackVars>>

Truncate ==
    /\ pc = "truncate"
    /\ ShouldTruncate(messages, prompt, max_length, tokenizer)
    /\ popped' = Append(popped, messages[PopIndex(messages) + 1])
    /\ Truncated(PyPop(messages, PopIndex(messages)))
    /\ UNCHANGED <<arg, state, user_input, kwargs, tokenizer, max_length,
                   assembled, extensions,
                   wrapperVars, hijackVars>>

Return ==
    /\ pc = "truncate"
    /\ ~ShouldTruncate(messages, prompt, max_length, tokenizer)
    /\ pc' = "returned"
    /\ ret' = ReturnValue(prompt, messages, kwargs)
    /\ UNCHANGED <<arg, state, user_input, kwargs, tokenizer, max_length,
                   messages, prompt, assembled, popped, extensions,
                   wrapperVars, hijackVars>>

NextGenerate == Assemble \/ Truncate \/ Return

TwoTurns == {Turn(<<"q">>, <<"r", "r">>), Turn(<<BEGIN_VISIBLE>>, <<"r">>)}

\* Truncation: every mode and flag, histories of up to MaxTurns turns,
\* every budget, both tokenizers, two pairs of templates
InitTruncation(chat, instruct) ==
    InitGenerate(Modes, {NAME1}, {<<>>, <<"Be ", "{{char}}">>}, {<<>>, <<"Obey">>},
                 {chat}, {instruct}, SeqsUpTo(TwoTurns, MaxTurns),
                 {<<"hi">>}, BOOLEAN, BOOLEAN, Budgets, {"len", "merge"},
                 {<<"coqui_tts">>})

Init == InitTruncation("chat", "chatml") \/ InitTruncation("llama", "bare")

Spec == Init /\ [][NextGenerate]_vars


----------------------------------------------------------------------------
(* The helpers called on their own *)

BosStrings == SeqsUpTo({BOS_S, BOS_T, "text"}, MaxBosLen)

InitBos ==
    /\ pc = "remove_extra_bos"
    /\ \E p \in BosStrings : arg = [fn |-> "remove_extra_bos", prompt |-> p]
    /\ state = None
    /\ ret = None
    /\ NoGenerate

CallRemoveExtraBos ==
    /\ pc = "remove_extra_bos"
    /\ pc' = "returned"
    /\ ret' = remove_extra_bos(arg.prompt)
    /\ UNCHANGED <<arg, state, user_input, kwargs, tokenizer, max_length,
                   messages, prompt, assembled, popped, extensions,
                   wrapperVars, hijackVars>>

SpecBos == InitBos /\ [][CallRemoveExtraBos]_vars

ProbeContents == {<<>>, <<"text">>, <<" ", "text", " ">>}

InitProbe ==
    /\ pc = "get_generation_prompt"
    /\ \E t \in TemplateNames, b \in {NoBindings, [name1 |-> NAME1, name2 |-> NAME2]},
          impersonate \in BOOLEAN, strip \in BOOLEAN, X \in ProbeContents :
          arg = [fn |-> "get_generation_prompt", renderer |-> Renderer(t, b),
                 impersonate |-> impersonate, strip_trailing_spaces |-> strip,
                 content |-> X]
    /\ state = None
    /\ ret = None
    /\ NoGenerate

\* the call ended by a return or by an exception
Ended(r) == pc' = (IF IsRaised(r) THEN "raised" ELSE "returned") /\ ret' = r

CallGetGenerationPrompt ==
    /\ pc = "get_generation_prompt"
    /\ Ended(get_generation_prompt(arg.renderer, arg.impersonate,
                                   arg.strip_trailing_spaces))
    /\ UNCHANGED <<arg, state, user_input, kwargs, tokenizer, max_length,
                   messages, prompt, assembled, popped, extensions,
                   wrapperVars, hijackVars>>

StoppingValues ==
    {[list |-> <<>>], [list |-> <<<<"\n", "You", ":">>, <<"###">>>>], [str |-> "###"]}

InitStopping ==
    /\ pc = "get_stopping_strings"
    /\ \E mode \in Modes, chat \in TemplateNames, instruct \in TemplateNames :
          \/ state = ConversationState(mode, NAME1, <<>>, <<>>, chat, instruct, <<>>)
          \/ \E v \in StoppingValues :
                state = WithStoppingStrings(
                    ConversationState(mode, NAME1, <<>>, <<>>, chat, instruct, <<>>), v)
    /\ arg = [fn |-> "get_stopping_strings", given |-> state]
    /\ ret = None
    /\ NoGenerate

\* line 214 pops the key; an exception of a probe leaves the state as it was
StoppingEnded(r) ==
    /\ Ended(r)
    /\ state' = IF ~IsRaised(r) /\ HasStoppingList(state)
                THEN StatePop(state, "stopping_strings") ELSE state

CallGetStoppingStrings ==
    /\ pc = "get_stopping_strings"
    /\ arg.fn = "get_stopping_strings"
    /\ StoppingEnded(get_stopping_strings(state))
    /\ UNCHANGED <<arg, user_input, kwargs, tokenizer, max_length,
                   messages, prompt, assembled, popped, extensions,
                   wrapperVars, hijackVars>>

\* the caller calls get_stopping_strings(state) again on the same state;
\* arg.given is the state as it was given to the first call, arg.first what
\* the first call returned
CallGetStoppingStringsAgain ==
    /\ pc = "returned"
    /\ arg.fn = "get_stopping_strings"
    /\ "first" \notin DOMAIN arg
    /\ pc' = "get_stopping_strings"
    /\ arg' = [fn |-> "get_stopping_strings", given |-> arg.given, first |-> ret]
    /\ ret' = None
    /\ UNCHANGED <<state, user_input, kwargs, tokenizer, max_length,
                   messages, prompt, assembled, popped, extensions,
                   wrapperVars, hijackVars>>

\* generate_chat_prompt over templates that lose a sentinel
InitMangled ==
    InitGenerate(Modes, {NAME1}, {<<"Be ", "{{char}}">>}, {<<>>},
                 {"chat", "last_only", "escape"}, {"chatml", "first_only"},
                 SeqsUpTo({Turn(<<"q">>, <<"r">>)}, MaxTurns),
                 {<<"hi">>}, BOOLEAN, {FALSE}, {0, MaxBudgetSteps * BudgetStep},
                 {"len"}, {<<"coqui_tts">>})

SpecProbe ==
    /\ InitProbe \/ InitStopping \/ InitMangled
    /\ [][\/ CallGetGenerationPrompt
          \/ CallGetStoppingStrings
          \/ CallGetStoppingStringsAgain
          \/ NextGenerate]_vars

\* Composition: every well-formed chat template, both flags
InitCompose ==
    InitGenerate(Modes, {NAME1}, {<<>>, <<"Be ", "{{char}}">>}, {<<"Obey">>},
                 WellFormedTemplates, {"chatml", "bare", "llama"},
                 SeqsUpTo(TwoTurns, MaxTurns),
                 {<<"hi">>}, BOOLEAN, {FALSE}, {0, MaxBudgetSteps * BudgetStep},
                 {"len"}, {<<"coqui_tts">>, <<"coqui_tts", "bias">>})

SpecCompose == InitCompose /\ [][NextGenerate]_vars

\* Sequencing: names, contexts and system messages that are empty, blank or
\* hold placeholders
InitSequence ==
    InitGenerate(Modes, {NAME1, <<>>, <<"<BOT>">>},
                 {<<>>, <<" ", "\n">>, <<"{{user}}">>,
                  <<" ", "I am ", "{{char}}", "<BOT>", ", you are ", "<USER>", "{{user}}">>},
                 {<<>>, <<" ">>, <<"Obey ", "{{char}}", "\n">>},
                 {"chat"}, {"chatml"},
                 SeqsUpTo({Turn(<<" ", "q">>, <<"r", "\n">>)}, MaxTurns),
                 {<<>>, <<"hi">>}, BOOLEAN, {FALSE}, {0, MaxBudgetSteps * BudgetStep},
                 {"len"}, {<<"coqui_tts">>})

SpecSequence == InitSequence /\ [][NextGenerate]_vars

\* the turns of a history: texts to strip, a blank user text, the marker of
\* an empty history as user text, a blank assistant text
HistoryTurns ==
    {Turn(<<" ", "q1", "\n">>, <<"\n", "r1", " ">>), Turn(<<BEGIN_VISIBLE>>, <<"Hello!">>),
     Turn(<<" ">>, <<"r2">>), Turn(<<"q3">>, <<"\n">>)}

\* History: every mode and flag, histories of up to MaxTurns of these turns,
\* an empty, a blank and a padded new input
InitHistory ==
    InitGenerate(Modes, {NAME1}, {<<>>, <<"Be ", "{{char}}">>}, {<<"Obey">>},
                 {"chat"}, {"chatml"}, SeqsUpTo(HistoryTurns, MaxTurns),
                 {<<>>, <<" ", "\n">>, <<" ", "hi", "\n">>}, BOOLEAN, {FALSE},
                 {0, MaxBudgetSteps * BudgetStep}, {"len"}, {<<"coqui_tts">>})

SpecHistory == InitHistory /\ [][NextGenerate]_vars

----------------------------------------------------------------------------
(* The history and the operations on it, chat.py 369-434 *)

\* html.escape on tokens: a token with an angle bracket changes
html_escape_token(tok) ==
    CASE tok = "<hi>" -> "&lt;hi&gt;"
      [] tok = "<USER>" -> "&lt;USER&gt;"
      [] OTHER -> tok

html_escape(s) == [i \in 1..Len(s) |-> html_escape_token(s[i])]

html_unescape_token(tok) ==
    CASE tok = "&lt;hi&gt;" -> "<hi>"
      [] tok = "&lt;USER&gt;" -> "<USER>"
      [] OTHER -> tok

html_unescape(s) == [i \in 1..Len(s) |-> html_unescape_token(s[i])]

\* the registered 'input' handler: coqui_tts's input_modifier returns its
\* argument
input_modifier(string) == string

\* the registered 'output' handler: coqui_tts's output_modifier, activated
\* and showing the text under the audio player
output_modifier(string) ==
    IF string = <<>> THEN <<"*Empty reply, try regenerating*">>
    ELSE <<"<audio>", "\n\n">> \o string

\* list[-1][1] = reply
SetLastReply(list, reply) == [list EXCEPT ![Len(list)] = <<@[1], reply>>]

\* list[:-1]
AllButLast(list) == SubSeq(list, 1, Len(list) - 1)

\* start_new_chat, lines 420-434: the history returned
start_new_chat(st) ==
    IF st.mode # "instruct" /\ replace_character_names(st.greeting, st.name1, st.name2) # <<>>
    THEN [internal |-> <<Turn(<<BEGIN_VISIBLE>>,
                              replace_character_names(st.greeting, st.name1, st.name2))>>,
          visible |-> <<Turn(<<>>, output_modifier(
                              replace_character_names(st.greeting, st.name1, st.name2)))>>]
    ELSE [internal |-> <<>>, visible |-> <<>>]

\* send_dummy_message, lines 398-402
send_dummy_message(text, h) ==
    [visible |-> Append(h.visible, Turn(html_escape(text), <<>>)),
     internal |-> Append(h.internal, Turn(input_modifier(text), <<>>))]

\* lines 407-409: the empty turn send_dummy_reply appends for its reply
WithOpenTurn(h) ==
    IF Len(h.visible) > 0 /\ Last(h.visible)[2] # <<>>
    THEN [visible |-> Append(h.visible, Turn(<<>>, <<>>)),
          internal |-> Append(h.internal, Turn(<<>>, <<>>))]
    ELSE h

\* lines 411-412, on the history of lines 407-409: [-1] of an empty list
\* raises IndexError
WithReply(text, h) ==
    IF Len(h.visible) = 0 THEN Raised("IndexError", "send_dummy_reply")
    ELSE [visible |-> SetLastReply(h.visible, html_escape(text)),
          internal |-> SetLastReply(h.internal, input_modifier(text))]

\* a reply written to history['visible'] alone
send_dummy_reply_visible_only(text, h) ==
    IF Len(h.visible) > 0 /\ Last(h.visible)[2] # <<>>
    THEN [visible |-> Append(h.visible, Turn(<<>>, html_escape(text))),
          internal |-> h.internal]
    ELSE WithReply(text, h)

\* send_dummy_reply, lines 405-413
send_dummy_reply(text, h) == WithReply(text, WithOpenTurn(h))

\* remove_last_message, lines 369-376: the text and the history returned
remove_last_message(h) ==
    IF Len(h.visible) > 0 /\ Last(h.internal)[1] # <<BEGIN_VISIBLE>>
    THEN [text |-> html_unescape(Last(h.visible)[1]),
          history |-> [visible |-> AllButLast(h.visible),
                       internal |-> AllButLast(h.internal)]]
    ELSE [text |-> <<>>, history |-> h]

\* replace_last_reply, lines 386-395
replace_last_reply(text, h) ==
    IF Len(PyStrip(text)) = 0 THEN h
    ELSE IF Len(h.visible) > 0
    THEN [visible |-> SetLastReply(h.visible, html_escape(text)),
          internal |-> SetLastReply(h.internal, input_modifier(text))]
    ELSE h

\* character_is_loaded(state), lines 337-345, without raise_exception
character_is_loaded(st) ==
    ~(st.mode \in {"chat", "chat-instruct"} /\ st.name2 = <<>>)

\* shared.model_name == 'None' or shared.model is None
NoModelLoaded == shared.model_name = "None" \/ shared.model = "None"

----------------------------------------------------------------------------
(* The session: the operations on state['history'] and the entry paths     *)
(* generate_chat_reply_wrapper, generate_chat_reply, chatbot_wrapper and   *)
(* impersonate_wrapper, chat.py 219-366.  A generator runs from one yield  *)
(* to the next; its caller keeps the last history it yielded.              *)

EntryPaths == {"generate_chat_reply_wrapper", "generate_chat_reply",
               "chatbot_wrapper", "impersonate_wrapper"}

\* what the user types
SessionTexts == {<<"<hi>">>}

\* what generate_reply yields: the reply so far, chunk after chunk
ReplyStreams == {<<>>, <<<<" ">>, <<" ", "a", "<USER>">>>>}

PROCESSING == "*Is typing...*"

\* state with the keys the wrappers read
SessionState(mode, name2, start_with, history) ==
    [mode |-> mode, name1 |-> NAME1, name2 |-> name2,
     context |-> <<"Be ", "{{char}}">>, custom_system_message |-> <<>>,
     chat_template_str |-> "chat", instruction_template_str |-> "chatml",
     chat_instruct_command |-> COMMAND,
     greeting |-> <<"Hello ", "{{user}}">>, start_with |-> start_with,
     stream |-> TRUE, history |-> history]

\* mode, name2, start_with, shared.model_name, shared.model
SessionConfigs ==
    {<<"chat", NAME2, <<>>, "llama", "loaded">>,
     <<"chat", NAME2, <<"Sure">>, "llama", "loaded">>,
     <<"instruct", NAME2, <<>>, "llama", "loaded">>,
     <<"chat", <<>>, <<>>, "llama", "loaded">>,
     <<"chat", NAME2, <<>>, "None", "None">>,
     <<"instruct", NAME2, <<>>, "llama", "None">>}

InitSession ==
    /\ pc = "idle"
    /\ arg = None
    /\ \E c \in SessionConfigs :
          /\ state = SessionState(c[1], c[2], c[3], History(<<>>))
          /\ shared = [model_name |-> c[4], model |-> c[5], stop_everything |-> FALSE]
    /\ output = None
    /\ frame = None
    /\ yielded = <<>>
    /\ replies = <<>>
    /\ user_input = <<>>
    /\ kwargs = None
    /\ max_length = MaxBudgetSteps * BudgetStep
    /\ tokenizer = "len"
    /\ extensions = <<"coqui_tts">>
    /\ messages = <<>>
    /\ prompt = <<>>
    /\ assembled = <<>>
    /\ popped = <<>>
    /\ ret = None
    /\ NoHijack

\* the variables of a running generate_chat_prompt
promptVars == <<user_input, kwargs, messages, prompt, assembled, popped>>

\* what no step of the session changes
fixedVars == <<tokenizer, max_length, extensions, hijackVars>>

\* an operation on state['history'] that returned h or raised
HistoryAssigned(fn, h) ==
    /\ pc = "idle"
    /\ IF IsRaised(h)
       THEN ret' = h /\ state' = state
       ELSE ret' = None /\ state' = [state EXCEPT !.history = h]
    /\ UNCHANGED <<pc, arg, promptVars, fixedVars, wrapperVars>>

\* the caller assigns what start_new_chat(state) returns
StartNewChat == HistoryAssigned("start_new_chat", start_new_chat(state))

SendDummyMessage ==
    /\ Len(state.history.internal) < MaxTurns
    /\ \E text \in SessionTexts :
          HistoryAssigned("send_dummy_message", send_dummy_message(text, state.history))

SendDummyReply ==
    /\ Len(state.history.internal) < MaxTurns
    /\ \E text \in {<<>>, <<"ok">>} :
          HistoryAssigned("send_dummy_reply", send_dummy_reply(text, state.history))

RemoveLastMessage ==
    HistoryAssigned("remove_last_message", remove_last_message(state.history).history)

ReplaceLastReply ==
    \E text \in {<<" ">>, <<"ok">>} :
        HistoryAssigned("replace_last_reply", replace_last_reply(text, state.history))

\* the flags of a call: normal, regenerate, continue
CallFlags == {[regenerate |-> FALSE, _continue |-> FALSE],
              [regenerate |-> TRUE, _continue |-> FALSE],
              [regenerate |-> FALSE, _continue |-> TRUE]}

\* the call can add a turn to the history
MayAppend(fn, flags) ==
    /\ ~flags._continue
    /\ flags.regenerate => (fn = "generate_chat_reply_wrapper" /\ state.start_with # <<>>)

\* the reply of the last turn is short enough to be taken up again
RedoBounded(h) ==
    Len(h.visible) > 0
        => Len(Last(h.visible)[2]) <= MaxReplyLen /\ Len(Last(h.internal)[2]) <= MaxReplyLen

\* an entry path is called
CallEntry ==
    /\ pc = "idle"
    /\ \E fn \in EntryPaths, text \in SessionTexts, flags \in CallFlags :
          /\ fn = "impersonate_wrapper" => flags = [regenerate |-> FALSE, _continue |-> FALSE]
          /\ MayAppend(fn, flags) => Len(state.history.internal) < MaxTurns
          /\ (flags.regenerate \/ flags._continue) => RedoBounded(state.history)
          /\ arg' = [fn |-> fn, text |-> text, regenerate |-> flags.regenerate,
                     _continue |-> flags._continue]
          /\ pc' = fn
    /\ ret' = None
    /\ yielded' = <<>>
    /\ shared' = [shared EXCEPT !.stop_everything = FALSE]
    /\ UNCHANGED <<state, promptVars, fixedVars, output, frame, replies>>

\* lines 357-364, from what remove_last_message returned when regenerating
StartWith(text, h, st) ==
    send_dummy_reply(st.start_with, send_dummy_message(text, h))

\* generate_chat_reply_wrapper up to its call of generate_chat_reply,
\* lines 353-366
GenerateChatReplyWrapper ==
    /\ pc = "generate_chat_reply_wrapper"
    /\ IF ~character_is_loaded(state)
       THEN /\ pc' = "done"
            /\ UNCHANGED <<arg, state>>
       ELSE IF state.start_with # <<>> /\ ~arg._continue
       THEN /\ pc' = "generate_chat_reply"
            /\ arg' = [arg EXCEPT
                        !.text = IF arg.regenerate
                                 THEN remove_last_message(state.history).text ELSE @,
                        !.regenerate = FALSE, !._continue = TRUE]
            /\ state' = [state EXCEPT !.history =
                            IF arg.regenerate
                            THEN StartWith(remove_last_message(@).text,
                                           remove_last_message(@).history, state)
                            ELSE StartWith(arg.text, @, state)]
       ELSE /\ pc' = "generate_chat_reply"
            /\ UNCHANGED <<arg, state>>
    /\ UNCHANGED <<ret, promptVars, fixedVars, wrapperVars>>

\* lines 329-331: nothing to regenerate or to continue
NothingToRedo(h) ==
    \/ Len(h.visible) = 1 /\ h.visible[1][1] = <<>>
    \/ Len(h.internal) = 0

\* generate_chat_reply up to its call of chatbot_wrapper, lines 325-334
GenerateChatReply ==
    /\ pc = "generate_chat_reply"
    /\ IF (arg.regenerate \/ arg._continue) /\ NothingToRedo(state.history)
       THEN /\ pc' = "done"
            /\ yielded' = Append(yielded, state.history)
            /\ arg' = [arg EXCEPT !.text = <<>>]
       ELSE /\ pc' = "chatbot_wrapper"
            /\ yielded' = yielded
            /\ arg' = [arg EXCEPT !.text = IF arg.regenerate \/ arg._continue
                                           THEN <<>> ELSE @]
    /\ UNCHANGED <<state, ret, promptVars, fixedVars, shared, output, frame, replies>>

\* lines 230-243: the new turn of a normal send and its loading message
Sent(text, h) ==
    [output |-> [internal |-> Append(h.internal, Turn(input_modifier(text), <<>>)),
                 visible |-> Append(h.visible, Turn(html_escape(text), <<>>))],
     text |-> input_modifier(text),
     visible_text |-> html_escape(text),
     last_reply |-> None,
     loading |-> [visible |-> Append(h.visible, Turn(html_escape(text), <<PROCESSING>>)),
                  internal |-> Append(h.internal, Turn(input_modifier(text), <<>>))]]

\* lines 245-260: the last turn taken up again, its loading message
Redone(regenerate, h) ==
    IF Len(h.internal) = 0 THEN Raised("IndexError", "chatbot_wrapper")
    ELSE [output |-> h,
          text |-> Last(h.internal)[1],
          visible_text |-> Last(h.visible)[1],
          last_reply |-> IF regenerate THEN None
                         ELSE <<Last(h.internal)[2], Last(h.visible)[2]>>,
          loading |-> IF regenerate
                      THEN [visible |-> Append(AllButLast(h.visible),
                                               Turn(Last(h.visible)[1], <<PROCESSING>>)),
                            internal |-> Append(AllButLast(h.internal),
                                                Turn(Last(h.internal)[1], <<>>))]
                      ELSE [visible |-> Append(AllButLast(h.visible),
                                               Turn(Last(h.visible)[1],
                                                    Last(h.visible)[2] \o <<"...">>)),
                            internal |-> h.internal]]

\* the locals after lines 220-260, or what was raised
Prepared(p, stopping) ==
    IF IsRaised(stopping) THEN stopping
    ELSE IF IsRaised(p) THEN p
    ELSE p

\* chatbot_wrapper up to its first yield, lines 220-260
ChatbotWrapperPrepare ==
    /\ pc = "chatbot_wrapper"
    /\ \E p \in {Prepared(IF ~(arg.regenerate \/ arg._continue)
                          THEN Sent(arg.text, state.history)
                          ELSE Redone(arg.regenerate, state.history),
                          get_stopping_strings(state))} :
          IF IsRaised(p)
          THEN /\ pc' = "raised"
               /\ ret' = p
               /\ UNCHANGED <<output, frame, yielded>>
          ELSE /\ pc' = "model_check"
               /\ ret' = ret
               /\ output' = p.output
               /\ frame' = [fn |-> "chatbot_wrapper", text |-> p.text,
                            visible_text |-> p.visible_text,
                            last_reply |-> p.last_reply, j |-> 0,
                            is_stream |-> state.stream]
               /\ yielded' = Append(yielded, p.loading)
    /\ state' = IF HasStoppingList(state) THEN StatePop(state, "stopping_strings") ELSE state
    /\ UNCHANGED <<arg, promptVars, fixedVars, shared, replies>>

\* the whole working history passed whatever the flags
PromptKwargsWholeHistory(continue, out) ==
    [impersonate |-> FALSE, _continue |-> continue, also_return_rows |-> FALSE,
     history |-> out]

\* lines 266-269: the keyword arguments of the prompt build
PromptKwargs(continue, out) ==
    [impersonate |-> FALSE, _continue |-> continue, also_return_rows |-> FALSE,
     history |-> IF continue THEN out
                 ELSE [internal |-> AllButLast(out.internal),
                       visible |-> AllButLast(out.visible)]]

\* generate_chat_prompt(text, state, **kwargs) is called
PromptCalled(text, kw) ==
    /\ pc' = "generate_chat_prompt"
    /\ user_input' = text
    /\ kwargs' = kw
    /\ messages' = <<>>
    /\ prompt' = <<>>
    /\ assembled' = <<>>
    /\ popped' = <<>>

\* chatbot_wrapper from its first yield to its call of generate_chat_prompt,
\* lines 262-272
ChatbotWrapperPrompt ==
    /\ pc = "model_check"
    /\ IF NoModelLoaded
       THEN /\ pc' = "raised"
            /\ ret' = Raised("ValueError", "chatbot_wrapper")
            /\ UNCHANGED promptVars
       ELSE /\ PromptCalled(frame.text, PromptKwargs(arg._continue, output))
            /\ ret' = ret
    /\ UNCHANGED <<arg, state, fixedVars, wrapperVars>>

\* impersonate_wrapper up to its call of generate_chat_prompt, lines 305-314
ImpersonateWrapperPrompt ==
    /\ pc = "impersonate_wrapper"
    /\ IF NoModelLoaded
       THEN /\ pc' = "done"
            /\ yielded' = Append(yielded, [text |-> <<>>])
            /\ frame' = frame
            /\ UNCHANGED promptVars
       ELSE /\ PromptCalled(<<>>, [impersonate |-> TRUE, _continue |-> FALSE,
                                   also_return_rows |-> FALSE, history |-> state.history])
            /\ yielded' = yielded
            /\ frame' = [fn |-> "impersonate_wrapper", text |-> arg.text]
    /\ UNCHANGED <<arg, state, ret, fixedVars, shared, output, replies>>

\* the prompt is built: generate_reply starts, lines 274-276 and 315-319
StartGenerateReply ==
    /\ pc = "returned"
    /\ arg.fn \in EntryPaths
    /\ pc' = "generate_reply"
    /\ replies' \in ReplyStreams
    /\ IF frame.fn = "impersonate_wrapper"
       THEN /\ state' = IF HasStoppingList(state)
                        THEN StatePop(state, "stopping_strings") ELSE state
            /\ yielded' = Append(yielded, [text |-> frame.text \o <<"...">>])
       ELSE UNCHANGED <<state, yielded>>
    /\ UNCHANGED <<arg, ret, promptVars, fixedVars, shared, output, frame>>

\* line 281, re.sub("(<USER>|<user>|{{user}})", name1, reply)
SubUser(reply, name1) ==
    Concat([i \in 1..Len(reply) |->
                IF reply[i] \in {"<USER>", "<user>", "{{user}}"} THEN name1
                ELSE <<reply[i]>>])

\* lines 279-283
VisibleReply(reply, st) ==
    html_escape(IF st.mode \in {"chat", "chat-instruct"}
                THEN SubUser(reply, st.name1) ELSE reply)

\* lines 297, 301: the last turn of a list replaced
SetLast(list, turn) == [list EXCEPT ![Len(list)] = turn]

\* the 'output' hook applied twice to the last visible reply
HookedTwice(out) ==
    [out EXCEPT !.visible =
        SetLastReply(@, output_modifier(output_modifier(Last(@)[2])))]

\* lines 285-288 and 301-302: the 'output' hook on the last visible reply
Hooked(out) ==
    [out EXCEPT !.visible = SetLastReply(@, output_modifier(Last(@)[2]))]

\* lines 290, 295: the chunk is written, and yielded when streaming
Writes(f, continue, visible_reply) ==
    continue \/ ~(f.j = 0 /\ PyStrip(visible_reply) = <<>>)

\* lines 290-299: the chunk written to the last turn, or skipped
Written(out, f, continue, reply, visible_reply) ==
    IF continue
    THEN [internal |-> SetLast(out.internal, Turn(f.text, f.last_reply[1] \o reply)),
          visible |-> SetLast(out.visible,
                              Turn(f.visible_text, f.last_reply[2] \o visible_reply))]
    ELSE IF Writes(f, continue, visible_reply)
    THEN [internal |-> SetLast(out.internal, Turn(f.text, LStripSet(reply, {" "}))),
          visible |-> SetLast(out.visible,
                              Turn(f.visible_text, LStripSet(visible_reply, {" "})))]
    ELSE out

\* one iteration of the loop of chatbot_wrapper, lines 276-299
ChatbotWrapperChunk ==
    /\ pc = "generate_reply"
    /\ frame.fn = "chatbot_wrapper"
    /\ replies # <<>>
    /\ IF shared.stop_everything
       THEN /\ output' = Hooked(output)
            /\ yielded' = Append(yielded, output')
            /\ pc' = "done"
            /\ UNCHANGED <<frame, replies>>
       ELSE /\ output' = Written(output, frame, arg._continue, Head(replies),
                                 VisibleReply(Head(replies), state))
            /\ yielded' = IF frame.is_stream
                               /\ Writes(frame, arg._continue,
                                         VisibleReply(Head(replies), state))
                          THEN Append(yielded, output') ELSE yielded
            /\ frame' = [frame EXCEPT !.j = @ + 1]
            /\ replies' = Tail(replies)
            /\ pc' = pc
    /\ UNCHANGED <<arg, state, ret, promptVars, fixedVars, shared>>

\* the loop of chatbot_wrapper is over, lines 301-302
ChatbotWrapperFinish ==
    /\ pc = "generate_reply"
    /\ frame.fn = "chatbot_wrapper"
    /\ replies = <<>>
    /\ output' = Hooked(output)
    /\ yielded' = Append(yielded, output')
    /\ pc' = "done"
    /\ UNCHANGED <<arg, state, ret, promptVars, fixedVars, shared, frame, replies>>

\* one iteration of the loop of impersonate_wrapper, lines 319-322
ImpersonateWrapperChunk ==
    /\ pc = "generate_reply"
    /\ frame.fn = "impersonate_wrapper"
    /\ replies # <<>>
    /\ yielded' = Append(yielded, [text |-> LStripSet(frame.text \o Head(replies), {" "})])
    /\ IF shared.stop_everything
       THEN pc' = "done" /\ replies' = replies
       ELSE pc' = pc /\ replies' = Tail(replies)
    /\ UNCHANGED <<arg, state, ret, promptVars, fixedVars, shared, output, frame>>

ImpersonateWrapperFinish ==
    /\ pc = "generate_reply"
    /\ frame.fn = "impersonate_wrapper"
    /\ replies = <<>>
    /\ pc' = "done"
    /\ UNCHANGED <<arg, state, ret, promptVars, fixedVars, wrapperVars>>

\* another thread sets shared.stop_everything while the reply is generated
StopEverything ==
    /\ pc = "generate_reply"
    /\ ~shared.stop_everything
    /\ shared' = [shared EXCEPT !.stop_everything = TRUE]
    /\ UNCHANGED <<pc, arg, state, ret, promptVars, fixedVars, output, frame,
                   yielded, replies>>

\* the call is over: its arguments and locals are gone
Forgotten ==
    /\ arg' = None
    /\ ret' = None
    /\ user_input' = <<>>
    /\ kwargs' = None
    /\ messages' = <<>>
    /\ prompt' = <<>>
    /\ assembled' = <<>>
    /\ popped' = <<>>
    /\ output' = None
    /\ frame' = None
    /\ yielded' = <<>>
    /\ replies' = <<>>

\* the histories among the values yielded; impersonate_wrapper yields texts
IsHistory(v) == "internal" \in DOMAIN v

\* the generator is exhausted: its caller keeps the last history it yielded
\* as state['history']
CallerKeepsHistory ==
    /\ pc = "done"
    /\ pc' = "idle"
    /\ state' = IF arg.fn # "impersonate_wrapper" /\ yielded # <<>>
                THEN [state EXCEPT !.history = Last(yielded)] ELSE state
    /\ Forgotten
    /\ UNCHANGED <<fixedVars, shared>>

\* the exception reaches the caller, the history stays as it is
CallerCatches ==
    /\ pc = "raised"
    /\ arg.fn \in EntryPaths
    /\ pc' = "idle"
    /\ Forgotten
    /\ UNCHANGED <<state, fixedVars, shared>>

NextSession ==
    \/ StartNewChat
    \/ SendDummyMessage
    \/ SendDummyReply
    \/ RemoveLastMessage
    \/ ReplaceLastReply
    \/ CallEntry
    \/ GenerateChatReplyWrapper
    \/ GenerateChatReply
    \/ ChatbotWrapperPrepare
    \/ ChatbotWrapperPrompt
    \/ ImpersonateWrapperPrompt
    \/ NextGenerate
    \/ StartGenerateReply
    \/ ChatbotWrapperChunk
    \/ ChatbotWrapperFinish
    \/ ImpersonateWrapperChunk
    \/ ImpersonateWrapperFinish
    \/ StopEverything
    \/ CallerKeepsHistory
    \/ CallerCatches

SpecSession == InitSession /\ [][NextSession]_vars

----------------------------------------------------------------------------
(* modules/llama_cpp_python_hijack.py: llama_cpp_lib *)

\* the three builds of llama-cpp-python
LlamaVariants == {"llama_cpp", "llama_cpp_cuda_tensorcores", "llama_cpp_cuda"}

\* lines 16-24
module_to_purpose(module_name) ==
    CASE module_name = "llama_cpp" -> "CPU"
      [] module_name = "llama_cpp_cuda_tensorcores" -> "tensorcores"
      [] module_name = "llama_cpp_cuda" -> "default"
      [] OTHER -> "unknown"

\* what importlib.import_module(name) returns when the import succeeds
Library(name) == [module |-> name]

\* a guard that lets every import through
AlreadyLoadedNever(wanted) == FALSE

\* lines 29, 38, 47, 57: `imported_module and imported_module != wanted`
AlreadyLoaded(wanted) == imported_module # NoModule /\ imported_module # wanted

\* the four import sections in the order of the code, and the variant each
\* one imports
Sections == <<"cpu", "tensorcores", "cpu_default", "default">>

Wanted(section) ==
    CASE section = "cpu" -> "llama_cpp"
      [] section = "tensorcores" -> "llama_cpp_cuda_tensorcores"
      [] section = "cpu_default" -> "llama_cpp"
      [] section = "default" -> "llama_cpp_cuda"

\* lines 28, 37, 46, 56: the condition under which a section is entered
Entered(section) ==
    CASE section = "cpu" -> shared.args.cpu
      [] section = "tensorcores" ->
            shared.args.tensorcores /\ frame.return_lib = None
      [] section = "cpu_default" ->
            /\ frame.return_lib = None
            /\ ~shared.args.cpu
            /\ imported_module # "llama_cpp_cuda"
      [] section = "default" -> frame.return_lib = None

\* what follows a section
After(section) ==
    CASE section = "cpu" -> "tensorcores"
      [] section = "tensorcores" -> "cpu_default"
      [] section = "cpu_default" -> "default"
      [] section = "default" -> "patch"

\* lines 114-135: the patch is applied to a library once
monkey_patch_llama_cpp_python(lib, done) ==
    IF lib.module \in done THEN done ELSE done \cup {lib.module}

\* the variables llama_cpp_lib never touches
promptIdle == <<state, user_input, kwargs, tokenizer, max_length, messages, prompt, assembled, popped, extensions, output, yielded, replies>>

InitLlama ==
    /\ pc = "idle"
    /\ arg = None
    /\ state = None
    /\ ret = None
    /\ shared = [args |-> [cpu |-> FALSE, tensorcores |-> FALSE]]
    /\ output = None
    /\ frame = None
    /\ yielded = <<>>
    /\ replies = <<>>
    /\ user_input = <<>>
    /\ kwargs = None
    /\ max_length = 0
    /\ tokenizer = "len"
    /\ extensions = <<>>
    /\ messages = <<>>
    /\ prompt = <<>>
    /\ assembled = <<>>
    /\ popped = <<>>
    /\ NoHijack

\* the flags are what the user set them to, llama_cpp_lib() is called: line 26
CallLlamaCppLib ==
    /\ pc = "idle"
    /\ \E cpu \in BOOLEAN, tensorcores \in BOOLEAN :
          shared' = [args |-> [cpu |-> cpu, tensorcores |-> tensorcores]]
    /\ arg' = [fn |-> "llama_cpp_lib"]
    /\ frame' = [return_lib |-> None]
    /\ ret' = None
    /\ pc' = "cpu"
    /\ UNCHANGED <<promptIdle, hijackVars>>

\* one section: skipped, or raising over another loaded variant, or trying
\* the import, which succeeds or fails
ImportSection(section) ==
    /\ pc = section
    /\ arg.fn = "llama_cpp_lib"
    /\ IF ~Entered(section)
       THEN /\ pc' = After(section)
            /\ UNCHANGED <<frame, ret, imported_module>>
       ELSE IF AlreadyLoaded(Wanted(section))
       THEN /\ pc' = "raised"
            /\ ret' = Raised("Exception", module_to_purpose(imported_module))
            /\ UNCHANGED <<frame, imported_module>>
       ELSE /\ pc' = After(section)
            /\ ret' = ret
            /\ \E found \in BOOLEAN :
                  IF found
                  THEN /\ frame' = [frame EXCEPT !.return_lib = Library(Wanted(section))]
                       /\ imported_module' = Wanted(section)
                  ELSE UNCHANGED <<frame, imported_module>>
    /\ UNCHANGED <<arg, shared, patched, promptIdle>>

\* lines 28-35
CpuSection == ImportSection("cpu")

\* lines 37-44
TensorcoresSection == ImportSection("tensorcores")

\* lines 46-54
CpuDefaultSection == ImportSection("cpu_default")

\* lines 56-64
DefaultSection == ImportSection("default")

\* lines 66-69
PatchAndReturn ==
    /\ pc = "patch"
    /\ arg.fn = "llama_cpp_lib"
    /\ patched' = IF frame.return_lib # None
                  THEN monkey_patch_llama_cpp_python(frame.return_lib, patched)
                  ELSE patched
    /\ ret' = frame.return_lib
    /\ pc' = "returned"
    /\ UNCHANGED <<arg, shared, frame, imported_module, promptIdle>>

\* the caller has the library, or None, or the exception
LlamaCallerGoesOn ==
    /\ pc \in {"returned", "raised"}
    /\ arg.fn = "llama_cpp_lib"
    /\ pc' = "idle"
    /\ frame' = None
    /\ UNCHANGED <<arg, shared, ret, hijackVars, promptIdle>>

NextLlama ==
    \/ CallLlamaCppLib
    \/ CpuSection
    \/ TensorcoresSection
    \/ CpuDefaultSection
    \/ DefaultSection
    \/ PatchAndReturn
    \/ LlamaCallerGoesOn

SpecLlama == InitLlama /\ [][NextLlama]_vars

----------------------------------------------------------------------------
(* Truncation: C1 - C5 *)

\* C1: when the list starts with a system message and holds another
\* message, an iteration of the truncation loop removes a message that is
\* not the system message and leaves the system message first; the system
\* message is removed only when it is the sole message left and the prompt
\* still exceeds the budget.
C1_SystemPreserved ==
    [][(pc = "truncate" /\ popped' # popped /\ messages[1].role = "system")
        => /\ get_encoded_length(prompt, tokenizer) > max_length
           /\ IF Len(messages) > 1
              THEN Last(popped').role # "system" /\ messages'[1] = messages[1]
              ELSE Last(popped') = messages[1] /\ messages' = <<>>]_vars

\* the system message outlived every other message and was removed last
C1_Witness ==
    /\ Len(assembled) > 2
    /\ popped = Tail(assembled) \o <<assembled[1]>>
    /\ Last(popped).role = "system"

\* C2: every iteration of the loop removes exactly one message, there are
\* never more iterations than the assembled list had messages, and the loop
\* is left for the return only with a prompt that fits or an empty list.
C2_TruncationTerminates ==
    [][pc = "truncate"
        => IF pc' = "returned"
           THEN /\ messages = <<>> \/ get_encoded_length(prompt, tokenizer) <= max_length
                /\ messages' = messages
           ELSE /\ Len(messages') = Len(messages) - 1
                /\ Len(popped') = Len(popped) + 1
                /\ Len(popped') <= Len(assembled)
                /\ Len(popped') + Len(messages') = Len(assembled)]_vars

\* the loop ran as many iterations as the list had messages, under the
\* tokenizer whose encoded length is not monotonic in the prompt
C2_Witness ==
    /\ pc = "returned"
    /\ Len(assembled) >= 3
    /\ Len(popped) = Len(assembled)
    /\ tokenizer = "merge"

RowsOf(msgs) == [i \in 1..Len(msgs) |-> msgs[i].content]

C3_Post(r) ==
    /\ ~IsRaised(r)
    /\ ret.prompt = r.prompt
    /\ get_encoded_length(ret.prompt, tokenizer) <= max_length \/ messages = <<>>
    /\ IF kwargs.also_return_rows
       THEN ret.rows = RowsOf(messages)
       ELSE DOMAIN ret = {"prompt"}

\* C3: the prompt returned is make_prompt of the final message list, it fits
\* the budget unless the final list is empty, and the rows returned with
\* also_return_rows are the contents of the final list in order.
C3_PostCondition ==
    pc = "returned" => C3_Post(make_prompt(messages, state, kwargs, extensions))

\* a return after truncation, with rows, of a list that is not empty
C3_Witness ==
    /\ pc = "returned"
    /\ popped # <<>>
    /\ kwargs.also_return_rows
    /\ Len(ret.rows) >= 2

C4_Retained(fit, other) ==
    /\ other < max_length => Len(fit.messages) <= Len(messages)
    /\ other = max_length => fit.messages = messages
    /\ other > max_length => Len(fit.messages) >= Len(messages)

\* C4: for the list, templates and tokenizer of a call that ended, the
\* truncation under any smaller budget leaves at most as many messages as the
\* call left, and under any larger budget at least as many.
C4_Monotonic ==
    pc \in {"returned", "raised"} =>
        \A other \in Budgets :
            C4_Retained(FitFrom(assembled, other, tokenizer, state, kwargs, extensions),
                        other)

\* a call that kept some messages and not all of them under a tokenizer that
\* is not monotonic, so that smaller and larger budgets keep other numbers
C4_Witness ==
    /\ pc = "returned"
    /\ tokenizer = "merge"
    /\ max_length \notin {0, MaxBudgetSteps * BudgetStep}
    /\ popped # <<>>
    /\ messages # <<>>

\* C5: a call whose truncation emptied the message list does not raise.
C5_EmptyListIsNoError ==
    (messages = <<>> /\ popped # <<>>) => pc # "raised"


----------------------------------------------------------------------------
(* Normalization and probing: C6 - C8 *)

StartsWithMarker(p) == StartsWith(p, <<BOS_S>>) \/ StartsWith(p, <<BOS_T>>)

\* C6: what remove_extra_bos returns starts with neither marker, so that
\* normalizing it again changes nothing.
C6_Idempotent ==
    (pc = "returned" /\ arg.fn = "remove_extra_bos")
        => ~StartsWithMarker(ret) /\ remove_extra_bos(ret) = ret

Spaces(k) == [i \in 1..k |-> " "]

ProbedRole(impersonate) == IF impersonate THEN "user" ELSE "assistant"

\* the render of the one message of the probed role holding the content
SingleRender == Render(arg.renderer, <<Msg(ProbedRole(arg.impersonate), arg.content)>>)

\* C7 as claimed: the render of a single message is prefix + X + suffix.
C7_RoundTrip ==
    (pc = "returned" /\ arg.fn = "get_generation_prompt")
        => SingleRender = ret.prefix \o arg.content \o ret.suffix

C7_Amended(single, lead) ==
    \E k \in 0..Len(single) :
        /\ single = lead \o ret.prefix \o Spaces(k) \o arg.content \o ret.suffix
        /\ ~arg.strip_trailing_spaces => k = 0
        /\ arg.strip_trailing_spaces => ~EndsWith(ret.prefix, <<" ">>)

\* C7 amended: for a renderer that writes a leading text and then every
\* message as its role's literal prefix, the content and its role's literal
\* suffix, the render of a single message is the leading text, the prefix,
\* the spaces stripped from the end of the prefix (none without
\* strip_trailing_spaces), the content and the suffix.
C7_RoundTripAmended ==
    (/\ arg.fn = "get_generation_prompt"
     /\ pc \in {"returned", "raised"}
     /\ TemplateOf(arg.renderer.template).kind = "all")
        => pc = "returned" /\ C7_Amended(SingleRender, Render(arg.renderer, <<>>))

\* a probe of a template with a leading text whose prefix lost its spaces
C7_Witness ==
    /\ pc = "returned"
    /\ arg.fn = "get_generation_prompt"
    /\ arg.renderer.template = "llama"
    /\ arg.strip_trailing_spaces
    /\ arg.impersonate
    /\ ret.prefix = <<"[INST]">>
    /\ arg.content # <<>>

\* a sentinel is missing from the render of the two sentinel messages
MissingIn(p) == SENT1 \notin ListItems(p) \/ SENT2 \notin ListItems(p)

SentinelMissing(renderer, impersonate) ==
    MissingIn(Render(renderer, SentinelMessages(impersonate)))

\* the probes make_prompt makes lose a sentinel
ComposerProbeFails ==
    \/ SentinelMissing(ActiveRenderer(state), kwargs.impersonate)
    \/ state.mode = "chat-instruct" /\ SentinelMissing(instruct_renderer(state), FALSE)

\* the probes get_stopping_strings makes lose a sentinel
StoppingProbeFails ==
    \E i \in 1..Len(StoppingRenderers(state)), impersonate \in BOOLEAN :
        SentinelMissing(StoppingRenderers(state)[i], impersonate)

RaisedIndexError == pc = "raised" /\ IsRaised(ret) /\ ret.raised = "IndexError"

\* C8: a probe whose render lacks a sentinel raises and returns no pair, and
\* generate_chat_prompt and get_stopping_strings end with that exception when
\* a probe they make lacks a sentinel.
C8_ProbeFailureSurfaced ==
    /\ (arg.fn = "get_generation_prompt" /\ pc \in {"returned", "raised"}
            /\ SentinelMissing(arg.renderer, arg.impersonate))
        => RaisedIndexError /\ "prefix" \notin DOMAIN ret
    /\ (arg.fn = "get_stopping_strings" /\ pc \in {"returned", "raised"}
            /\ StoppingProbeFails)
        => RaisedIndexError /\ "strings" \notin DOMAIN ret
    /\ (arg.fn = "generate_chat_prompt" /\ pc \in {"truncate", "returned", "raised"}
            /\ ComposerProbeFails)
        => RaisedIndexError /\ "prompt" \notin DOMAIN ret

\* generate_chat_prompt ended with the exception of the probe of the
\* instruction template, in chat-instruct mode
C8_Witness ==
    /\ arg.fn = "generate_chat_prompt"
    /\ pc = "raised"
    /\ state.mode = "chat-instruct"
    /\ state.chat_template_str = "chat"
    /\ state.instruction_template_str = "first_only"
    /\ ret.at = "get_generation_prompt"

----------------------------------------------------------------------------
(* Composition and sequencing: C9, C10 *)

Continued(kw, flag) == [kw EXCEPT !._continue = flag]

\* the suffix make_prompt drops in continuation
OmittedSuffix == get_generation_prompt(ActiveRenderer(state), kwargs.impersonate, TRUE)

\* the prefix make_prompt appends without continuation
AppendedPrefix(probe) ==
    IF state.mode = "chat" /\ ~kwargs.impersonate
    THEN apply_extensions_bot_prefix(extensions, probe.prefix) ELSE probe.prefix

C9_Equal(continued, probe, plain) ==
    (~IsRaised(continued) /\ ~IsRaised(probe) /\ ~IsRaised(plain))
        => continued.prompt \o probe.suffix = plain.prompt

Unnormalized(msgs, flag) ==
    PlainPrompt(Render(ActiveRenderer(state), msgs), OmittedSuffix, state,
                Continued(kwargs, flag), extensions)

C9_Covered(rendered, probe, continued, plain) ==
    /\ probe.suffix # <<>>
    /\ EndsWith(rendered, probe.suffix)
    /\ remove_extra_bos(continued.prompt) = continued.prompt
    /\ remove_extra_bos(plain.prompt) = plain.prompt

C9_EqualAmended(continued, probe, plain) ==
    continued.prompt \o probe.suffix \o AppendedPrefix(probe) = plain.prompt

Placeholders == {"{{user}}", "{{char}}", "<USER>", "<BOT>"}

\* every placeholder of the text replaced by the name it stands for
Substituted(text, name1, name2) ==
    Concat([i \in 1..Len(text) |->
                CASE text[i] \in {"{{user}}", "<USER>"} -> name1
                  [] text[i] \in {"{{char}}", "<BOT>"} -> name2
                  [] OTHER -> <<text[i]>>])

StartsWithSystem(msgs) == msgs # <<>> /\ msgs[1].role = "system"

OnlyFirstIsSystem(msgs) == \A i \in 2..Len(msgs) : msgs[i].role # "system"

\* the text of the mode as the claim reads it: the context after substitution
C10_Text == IF state.mode = "instruct" THEN state.custom_system_message
            ELSE Substituted(state.context, state.name1, state.name2)

\* C10 as claimed: the text of the mode is custom_system_message in instruct
\* mode and the substituted context otherwise; the list starts with a system
\* message holding it iff it is not blank, and holds no other system message.
C10_SystemRule ==
    (pc = "truncate" /\ popped = <<>>)
        => /\ StartsWithSystem(messages) <=> PyStrip(C10_Text) # <<>>
           /\ StartsWithSystem(messages) => messages[1].content = C10_Text
           /\ OnlyFirstIsSystem(messages)

\* the text whose blankness decides: the context before the substitution
C10_RawText == IF state.mode = "instruct" THEN state.custom_system_message
               ELSE state.context

PlaceholderFree(name) == \A i \in 1..Len(name) : name[i] \notin Placeholders

\* C10 amended: the list starts with a system message iff custom_system_message
\* (instruct) or the context before the substitution (chat, chat-instruct) is
\* not blank; its content is custom_system_message verbatim, or the context
\* after replace_character_names, which is the context with every placeholder
\* replaced by its name when no name holds a placeholder; no other message
\* is a system message.
C10_SystemRuleAmended ==
    (pc = "truncate" /\ popped = <<>>)
        => /\ StartsWithSystem(messages) <=> PyStrip(C10_RawText) # <<>>
           /\ (StartsWithSystem(messages) /\ PlaceholderFree(state.name1)
                    /\ PlaceholderFree(state.name2))
                => messages[1].content = C10_Text
           /\ OnlyFirstIsSystem(messages)

\* a context of placeholders alone with an empty name1: a system message
\* with an empty content
C10_Witness ==
    /\ pc = "truncate"
    /\ popped = <<>>
    /\ state.mode = "chat"
    /\ state.name1 = <<>>
    /\ state.context = <<"{{user}}">>
    /\ StartsWithSystem(messages)
    /\ messages[1].content = <<>>
    /\ Len(messages) > 1

----------------------------------------------------------------------------
(* The sequencer's history and trailing input: C11, C12 *)

IsNotSystem(m) == m.role # "system"

NonSystem(msgs) == SelectSeq(msgs, IsNotSystem)

\* the messages of one turn as the claim has them: the user text and the
\* assistant text, stripped, each when it is to be present
MessagesOfTurn(turn) ==
    (IF PyStrip(turn[1]) \notin {<<>>, <<BEGIN_VISIBLE>>}
     THEN <<Msg("user", PyStrip(turn[1]))>> ELSE <<>>)
        \o (IF PyStrip(turn[2]) # <<>>
            THEN <<Msg("assistant", PyStrip(turn[2]))>> ELSE <<>>)

\* the turns in chronological order
Chronological(turns) == Concat([i \in 1..Len(turns) |-> MessagesOfTurn(turns[i])])

C11_Ordered(nonsystem, expected) ==
    /\ Len(expected) <= Len(nonsystem)
    /\ SubSeq(nonsystem, 1, Len(expected)) = expected
    /\ Len(nonsystem) <= Len(expected) + 1

\* C11: the non-system messages built from the history are, in chronological
\* turn order, the stripped user text of a turn when it is neither empty nor
\* the marker of an empty history, then its stripped assistant text when it
\* is not empty; at most the new input follows them.
C11_HistoryOrder ==
    (pc = "truncate" /\ popped = <<>>)
        => C11_Ordered(NonSystem(messages), Chronological(kwargs.history.internal))

\* two turns, the older with both messages, the newer with the marker as
\* user text: three history messages in chronological order
C11_Witness ==
    /\ pc = "truncate"
    /\ popped = <<>>
    /\ kwargs.history.internal
         = <<Turn(<<" ", "q1", "\n">>, <<"\n", "r1", " ">>), Turn(<<BEGIN_VISIBLE>>, <<"Hello!">>)>>
    /\ NonSystem(messages)
         = <<Msg("user", <<"q1">>), Msg("assistant", <<"r1">>), Msg("assistant", <<"Hello!">>)>>

\* the condition of the trailing user message
TrailingExpected ==
    PyStrip(user_input) # <<>> /\ ~kwargs.impersonate /\ ~kwargs._continue

C12_Trailing(nonsystem, fromHistory) ==
    /\ Len(nonsystem) = Len(fromHistory) + (IF TrailingExpected THEN 1 ELSE 0)
    /\ TrailingExpected => Last(messages) = Msg("user", PyStrip(user_input))
    /\ (kwargs.history.internal = <<>> /\ PyStrip(user_input) = <<>>) => nonsystem = <<>>

\* C12: a user message holding the stripped new input is the last message
\* iff the input is not blank and neither impersonate nor _continue is set,
\* and no message follows the history otherwise; with an empty history and a
\* blank input the list holds the optional system message alone.
C12_TrailingInput ==
    (pc = "truncate" /\ popped = <<>>)
        => C12_Trailing(NonSystem(messages), Chronological(kwargs.history.internal))

\* a padded input appended stripped after a turn of the history
C12_Witness ==
    /\ pc = "truncate"
    /\ popped = <<>>
    /\ user_input = <<" ", "hi", "\n">>
    /\ Len(kwargs.history.internal) > 0
    /\ Len(messages) >= 3
    /\ Last(messages) = Msg("user", <<"hi">>)

----------------------------------------------------------------------------
(* Composition: C13 - C15 *)

\* the probe of the next turn's role, its prefix as the template has it
NextTurnProbe == get_generation_prompt(ActiveRenderer(state), kwargs.impersonate, FALSE)

\* the 'bot_prefix' hook, applied exactly in chat mode without impersonate
HookedInChat(P) ==
    IF state.mode = "chat" /\ ~kwargs.impersonate
    THEN apply_extensions_bot_prefix(extensions, P) ELSE P

C13_Composed(rendered, probe) ==
    ~IsRaised(probe)
        /\ prompt = remove_extra_bos(rendered \o HookedInChat(PyRStripSpaces(probe.prefix)))

\* C13: in chat and instruct mode without _continue the prompt is the
\* normalization of the render of the messages followed by P, the probed
\* prefix of the next turn's role without its trailing spaces, given to the
\* 'bot_prefix' hook exactly when the mode is chat and impersonate is not set.
C13_NonContinuation ==
    (pc = "truncate" /\ state.mode \in {"chat", "instruct"} /\ ~kwargs._continue)
        => C13_Composed(Render(ActiveRenderer(state), messages), NextTurnProbe)

\* instruct mode with a handler that extends the prefix: the prompt of
\* several messages ends with the bare prefix of the assistant
C13_Witness ==
    /\ pc = "truncate"
    /\ state.mode = "instruct"
    /\ state.instruction_template_str = "chatml"
    /\ ~kwargs._continue
    /\ ~kwargs.impersonate
    /\ extensions = <<"coqui_tts", "bias">>
    /\ Len(messages) >= 3
    /\ Last(prompt) = "<|bot|>"

\* s without its last n tokens
WithoutLast(s, n) == SubSeq(s, 1, Len(s) - n)

\* the content of the outer assistant message
OuterContent(probe) ==
    IF kwargs._continue THEN probe.prefix \o Last(messages).content
    ELSE IF ~kwargs.impersonate
    THEN apply_extensions_bot_prefix(extensions, PyRStripSpaces(probe.prefix))
    ELSE PyRStripSpaces(probe.prefix)

\* the outer messages: the optional system message, the command, the
\* assistant message
OuterMessages(content) ==
    OuterSystem(state)
        \o <<Msg("user", Command(FirstRender(messages, state, kwargs), state, kwargs)),
             Msg("assistant", content)>>

C14_Open(content, suffix) ==
    /\ prompt = remove_extra_bos(
                    WithoutLast(Render(instruct_renderer(state), OuterMessages(content)),
                                Len(suffix)))
    /\ EndsWith(prompt, content)

\* C14: in chat-instruct mode the prompt is the instruction render of the
\* outer messages without the suffix the instruction template closes an
\* assistant message with, normalized, and so it ends with the content of
\* the outer assistant message; also when that suffix is empty.
C14_AssistantOpen ==
    (pc = "truncate" /\ state.mode = "chat-instruct")
        => C14_Open(OuterContent(NextTurnProbe),
                    TemplateOf(state.instruction_template_str).suf["assistant"])

\* the suffix the template closes the last message with
ClosingSuffix ==
    Bind(TemplateOf(ActiveRenderer(state).template).suf[Last(messages).role],
         ActiveRenderer(state).bindings)

C15_Open(rendered, suffix) ==
    /\ prompt = remove_extra_bos(WithoutLast(rendered, Len(suffix)))
    /\ EndsWith(prompt, Last(messages).content)

\* C15: in chat and instruct mode with _continue and a list that is not
\* empty, the prompt is the render of the messages without the suffix that
\* closes the last message, normalized, and so it ends with the content of
\* the last message; also when that suffix is empty.
C15_ContinuationOpen ==
    (/\ pc = "truncate"
     /\ state.mode \in {"chat", "instruct"}
     /\ kwargs._continue
     /\ messages # <<>>)
        => C15_Open(Render(ActiveRenderer(state), messages), ClosingSuffix)

----------------------------------------------------------------------------
(* Frame of the prompt build and the stopping strings: C17 - C19 *)

\* C17: no step of generate_chat_prompt, an iteration of the truncation loop
\* included, changes state (state['history'] with it), the history passed in
\* kwargs or the input; truncation removes entries of the message list only.
C17_InputsUnchanged ==
    [][(pc \in {"generate_chat_prompt", "truncate"})
        => /\ state' = state
           /\ kwargs' = kwargs
           /\ user_input' = user_input
           /\ (pc = "truncate" /\ pc' # "returned") => Len(messages') = Len(messages) - 1]_vars

\* truncation removed every message of a history of two turns, and the
\* history of the state and of kwargs still hold the two turns
C17_Witness ==
    /\ pc = "returned"
    /\ Len(popped) >= 3
    /\ messages = <<>>
    /\ Len(state.history.internal) = 2
    /\ kwargs.history = state.history

NoDuplicates(list) == \A i, j \in 1..Len(list) : list[i] = list[j] => i = j

\* the renderers active for the mode
ActiveRenderers(st) ==
    (IF st.mode \in {"instruct", "chat-instruct"} THEN {instruct_renderer(st)} ELSE {})
        \cup (IF st.mode \in {"chat", "chat-instruct"} THEN {chat_renderer(st)} ELSE {})

FourOf(bot, user) ==
    {user.suffix \o bot.prefix, user.suffix \o user.prefix,
     bot.suffix \o bot.prefix, bot.suffix \o user.prefix}

\* the four combinations of the boundaries of every active renderer
Combinations(st) ==
    UNION {FourOf(get_generation_prompt(r, FALSE, TRUE),
                  get_generation_prompt(r, TRUE, TRUE)) : r \in ActiveRenderers(st)}

\* the entries of state['stopping_strings'] when it is a list
Extras(st) ==
    IF "stopping_strings" \in DOMAIN st /\ "list" \in DOMAIN st.stopping_strings
    THEN ListItems(st.stopping_strings.list) ELSE {}

FirstReturned ==
    arg.fn = "get_stopping_strings" /\ pc = "returned" /\ "first" \notin DOMAIN arg

SecondReturned ==
    arg.fn = "get_stopping_strings" /\ pc = "returned" /\ "first" \in DOMAIN arg

\* C18: the list get_stopping_strings returns has no duplicates, and its
\* elements are the four combinations of every renderer active for the mode
\* together with the entries of state['stopping_strings'] when it is a list.
C18_StoppingSet ==
    FirstReturned
        => /\ NoDuplicates(ret.strings)
           /\ ListItems(ret.strings) = Combinations(arg.given) \cup Extras(arg.given)

\* chat-instruct mode: two renderers, eight combinations of which four
\* differ, and two extras of which one is a combination
C18_Witness ==
    /\ FirstReturned
    /\ arg.given.mode = "chat-instruct"
    /\ arg.given.chat_template_str = "chat"
    /\ arg.given.instruction_template_str = "chatml"
    /\ Extras(arg.given) = {<<"\n", "You", ":">>, <<"###">>}
    /\ Len(ret.strings) = 5

\* every key but 'stopping_strings' is as it was given, and no key is new
OtherKeysKept(given, st) ==
    /\ DOMAIN st \subseteq DOMAIN given
    /\ \A k \in DOMAIN given \ {"stopping_strings"} : k \in DOMAIN st /\ st[k] = given[k]

\* the key is gone exactly when it was given and held a list
KeyConsumed(given, st) ==
    /\ "stopping_strings" \in DOMAIN st
         <=> ("stopping_strings" \in DOMAIN given
                /\ "list" \notin DOMAIN given.stopping_strings)
    /\ "stopping_strings" \in DOMAIN st => st.stopping_strings = given.stopping_strings

\* C19: a call of get_stopping_strings that returns removes the key
\* 'stopping_strings' from state exactly when it is there and holds a list,
\* and leaves every other key as it was; of two calls in a row on the same
\* state the first returns the extras and the second the combinations alone.
C19_ConsumesExtras ==
    (arg.fn = "get_stopping_strings" /\ pc = "returned")
        => /\ OtherKeysKept(arg.given, state)
           /\ KeyConsumed(arg.given, state)
           /\ SecondReturned
                => /\ Extras(arg.given) \subseteq ListItems(arg.first.strings)
                   /\ ListItems(ret.strings) = Combinations(arg.given)

\* the second call returned without the extra the first call returned
C19_Witness ==
    /\ SecondReturned
    /\ <<"###">> \in Extras(arg.given)
    /\ <<"###">> \in ListItems(arg.first.strings)
    /\ <<"###">> \notin ListItems(ret.strings)
    /\ "stopping_strings" \notin DOMAIN state

----------------------------------------------------------------------------
(* The session: C16, C20 *)

SameLength(h) == Len(h.internal) = Len(h.visible)

\* C16: after any sequence of start_new_chat, send_dummy_message,
\* send_dummy_reply, remove_last_message, replace_last_reply and
\* chatbot_wrapper steps from an empty history, state['history'] and every
\* history yielded have as many internal as visible turns.
C16_SameLength ==
    /\ SameLength(state.history)
    /\ \A i \in 1..Len(yielded) : IsHistory(yielded[i]) => SameLength(yielded[i])

\* generate_chat_reply_wrapper with start_with continued the dummy reply of
\* a second turn: the loading message, a chunk and the final history
C16_Witness ==
    /\ pc = "done"
    /\ arg.fn = "generate_chat_reply_wrapper"
    /\ state.start_with # <<>>
    /\ Len(state.history.internal) = 2
    /\ Len(yielded) >= 3
    /\ Len(Last(yielded).visible) = 2

\* no model is loaded, or no character is loaded in chat or chat-instruct mode
InvalidState ==
    \/ shared.model = "None"
    \/ shared.model_name = "None"
    \/ state.mode \in {"chat", "chat-instruct"} /\ state.name2 = <<>>

\* C20: on no entry path is generate_chat_prompt called when no model is
\* loaded, or when the mode is chat or chat-instruct and name2 is empty.
C20_ComposerGuarded ==
    pc = "generate_chat_prompt" => ~InvalidState

----------------------------------------------------------------------------
(* The order of truncation: C21 *)

\* the last n elements of a list
LastN(list, n) == SubSeq(list, Len(list) - n + 1, Len(list))

\* the first n elements of a list
FirstN(list, n) == SubSeq(list, 1, n)

\* msgs is original without a block of its oldest non-system messages: its
\* non-system messages are the newest of the original ones, in their order,
\* after the system message of the original, which is gone only when no
\* other message is left
C21_OldestRemoved(msgs, original, removed) ==
    /\ Len(NonSystem(msgs)) <= Len(NonSystem(original))
    /\ NonSystem(msgs) = LastN(NonSystem(original), Len(NonSystem(msgs)))
    /\ NonSystem(removed) = FirstN(NonSystem(original), Len(NonSystem(removed)))
    /\ Len(msgs) + Len(removed) = Len(original)
    /\ IF StartsWithSystem(original) /\ Len(removed) < Len(original)
       THEN msgs = <<original[1]>> \o NonSystem(msgs)
       ELSE msgs = NonSystem(msgs)

\* C21: at every iteration of the truncation loop the message list is the
\* list as built without a contiguous block of its oldest non-system
\* messages, behind the system message while it survives; no message is
\* reordered, duplicated or modified.
C21_OldestFirst ==
    (pc \in {"truncate", "returned", "raised"} /\ assembled # <<>>)
        => C21_OldestRemoved(messages, assembled, popped)

\* two of the oldest messages are gone from a list of a system message and
\* at least four others, the system message is still first
C21_Witness ==
    /\ pc = "truncate"
    /\ Len(assembled) >= 5
    /\ Len(popped) = 2
    /\ StartsWithSystem(messages)
    /\ popped = <<assembled[2], assembled[3]>>
    /\ messages[2] = assembled[4]

----------------------------------------------------------------------------
(* The input of the prompt build in chatbot_wrapper: C22 *)

\* the prompt build of a running chatbot_wrapper has assembled its messages
ChatbotPromptAssembled ==
    /\ pc = "truncate"
    /\ popped = <<>>
    /\ "fn" \in DOMAIN frame
    /\ frame.fn = "chatbot_wrapper"

\* the user message of a text, when the text is not blank
UserMessageOf(text) ==
    IF PyStrip(text) # <<>> THEN <<Msg("user", PyStrip(text))>> ELSE <<>>

C22_Selected(nonsystem, working) ==
    IF arg._continue
    THEN /\ kwargs.history = working
         /\ nonsystem = Chronological(working.internal)
    ELSE /\ kwargs.history = [internal |-> FirstN(working.internal, Len(working.internal) - 1),
                              visible |-> FirstN(working.visible, Len(working.visible) - 1)]
         /\ user_input = Last(working.internal)[1]
         /\ nonsystem = Chronological(FirstN(working.internal, Len(working.internal) - 1))
                            \o UserMessageOf(Last(working.internal)[1])

\* C22: for a normal send and for regenerate chatbot_wrapper passes the
\* working history without its last turn and the user text of the last turn
\* as the input, so that the messages end with that user text once and hold
\* nothing of the last turn's reply; for _continue it passes the whole
\* working history and no user message follows it.
C22_InputSelection ==
    ChatbotPromptAssembled => C22_Selected(NonSystem(assembled), output)

Occurrences(s, tok) == Cardinality({i \in 1..Len(s) : s[i] = tok})

\* a turn with the reply 'ok' is regenerated: the prompt holds the user text
\* of the turn once and not the reply
C22_Witness ==
    /\ ChatbotPromptAssembled
    /\ arg.regenerate
    /\ state.mode = "chat"
    /\ output.internal = <<Turn(<<"<hi>">>, <<"ok">>)>>
    /\ Occurrences(prompt, "<hi>") = 1
    /\ Occurrences(prompt, "ok") = 0

----------------------------------------------------------------------------
(* Cancellation between the chunks of chatbot_wrapper: C23 *)

\* the loop of chatbot_wrapper is running
InChunkLoop == pc = "generate_reply" /\ frame.fn = "chatbot_wrapper"

\* what an application of the 'output' hook leaves in a reply: the audio
\* player, or the notice of an empty reply
HookMarks(reply) ==
    Occurrences(reply, "<audio>") + Occurrences(reply, "*Empty reply, try regenerating*")

\* the history with the hook applied to its last visible reply
WithHookedReply(h, reply) ==
    [internal |-> h.internal,
     visible |-> Append(FirstN(h.visible, Len(h.visible) - 1),
                        <<Last(h.visible)[1], output_modifier(reply)>>)]

\* C23: when shared.stop_everything is set as a chunk arrives, the chunk is
\* not written to the history, no further chunk is consumed and the
\* generator yields once more and ends; on the cancelled and on the normal
\* path the step that ends the generator applies the 'output' hook to the
\* last visible reply and yields the history carrying it last, and no step
\* before it applies the hook.
C23_Cancellation ==
    [][InChunkLoop
        => /\ (shared.stop_everything /\ replies # <<>>)
                => /\ pc' = "done"
                   /\ output'.internal = output.internal
                   /\ replies' = replies
           /\ pc' = "done"
                => /\ output' = WithHookedReply(output, Last(output.visible)[2])
                   /\ yielded' = Append(yielded, output')
           /\ pc' # "done"
                => /\ Len(output'.visible) = Len(output.visible)
                   /\ HookMarks(Last(output'.visible)[2])
                        <= HookMarks(Last(output.visible)[2])]_vars

\* a send cancelled at the chunk that held the first text: the reply stays
\* empty, the chunk is left, the notice of the hook is yielded last
C23_Witness ==
    /\ pc = "done"
    /\ "fn" \in DOMAIN frame
    /\ frame.fn = "chatbot_wrapper"
    /\ shared.stop_everything
    /\ Len(replies) = 1
    /\ ~arg.regenerate
    /\ ~arg._continue
    /\ Last(output.internal)[2] = <<>>
    /\ Len(yielded) >= 2
    /\ Last(Last(yielded).visible)[2] = <<"*Empty reply, try regenerating*">>

----------------------------------------------------------------------------
(* The loaded llama-cpp variant: C24 *)

\* a step of llama_cpp_lib inside one of its import sections
InImportSection ==
    /\ \E i \in 1..Len(Sections) : pc = Sections[i]
    /\ arg.fn = "llama_cpp_lib"

\* C24: over any sequence of llama_cpp_lib calls, whatever the cpu and
\* tensorcores flags are and whichever imports succeed, a name held by
\* imported_module never changes to another name; a section that would
\* import a variant other than the one held raises instead of importing,
\* and a library that is returned is the one imported_module names.
C24_WriteOnce ==
    [][/\ imported_module # NoModule => imported_module' = imported_module
       /\ (/\ InImportSection
           /\ Entered(pc)
           /\ imported_module # NoModule
           /\ imported_module # Wanted(pc))
            => /\ pc' = "raised"
               /\ IsRaised(ret')
               /\ frame' = frame
       /\ (pc = "patch" /\ pc' = "returned" /\ ret' # None)
            => /\ ret'.module \in LlamaVariants
               /\ ret'.module = imported_module'
               /\ ret'.module \in patched']_vars

\* the default build was loaded and patched by an earlier call, and a call
\* with the cpu flag has raised
C24_Witness ==
    /\ pc = "raised"
    /\ arg.fn = "llama_cpp_lib"
    /\ shared.args.cpu
    /\ imported_module = "llama_cpp_cuda"
    /\ patched = {"llama_cpp_cuda"}
    /\ IsRaised(ret)
    /\ ret.at = "default"

============================================================================
